---- MODULE Spec2Model ----
\* Model of code_analyzer.py: the extraction pass (FunctionVisitor, CallVisitor,
\* CodeAnalyzer._analyze_python_file), the classifiers (get_call_count,
\* find_private_candidates, find_unused_functions, find_unused_classes,
\* find_unused_variables, find_all_unused_elements) and main().
EXTENDS Integers, Sequences, FiniteSets, TLC

VARIABLES
    functions,       \* CodeAnalyzer.functions: sequence of FunctionInfo
    calls,           \* CodeAnalyzer.calls: sequence of CallInfo
    variables,       \* CodeAnalyzer.variables: sequence of VariableInfo
    variable_uses,   \* CodeAnalyzer.variable_uses: sequence of (name, file, class, function)
    classes,         \* CodeAnalyzer.classes: sequence of ClassInfo
    class_uses,      \* CodeAnalyzer.class_uses: set of names
    project,         \* what is under args.directory: files, and directories with their listings
    skip_dirs,       \* main's local `skip_dirs`, [] unless --skip-dirs is given
    written,         \* the files main() has written into the directory, newest first
    html,            \* args.html
    find_unused,     \* args.find_unused
    todo,            \* units analyze() has not reached yet
    pc,              \* position in main()
    candidates,      \* main's local `candidates`
    unused_elements, \* main's local `unused_elements`
    run,             \* which invocation of main() this is
    first_run,       \* the findings the first invocation wrote
    returned         \* the value the last direct classifier call returned

vars == <<functions, calls, variables, variable_uses, classes, class_uses, project,
          skip_dirs, written, html, find_unused, todo, pc, candidates, unused_elements, run, first_run, returned>>

index == <<functions, calls, variables, variable_uses, classes, class_uses>>

\* Python's None. `None` is a keyword, so no identifier is spelled like it.
None == "None"

(***************************************************************************)
(* Strings.  TLC strings are atomic, so every identifier the model uses is *)
(* spelled out here and the str methods work on the spelling.              *)
(***************************************************************************)
CharTable ==
    "code_analysis_report.html" :> <<"c", "o", "d", "e", "_", "a", "n", "a", "l", "y", "s", "i", "s", "_", "r", "e", "p", "o", "r", "t", ".", "h", "t", "m", "l">> @@
    "./code_analysis_report.html" :> <<".", "/", "c", "o", "d", "e", "_", "a", "n", "a", "l", "y", "s", "i", "s", "_", "r", "e", "p", "o", "r", "t", ".", "h", "t", "m", "l">> @@
    "public_method" :> <<"p", "u", "b", "l", "i", "c", "_", "m", "e", "t", "h", "o", "d">> @@
    "_private_method" :> <<"_", "p", "r", "i", "v", "a", "t", "e", "_", "m", "e", "t", "h", "o", "d">> @@
    "unused_method" :> <<"u", "n", "u", "s", "e", "d", "_", "m", "e", "t", "h", "o", "d">> @@
    "TestClass" :> <<"T", "e", "s", "t", "C", "l", "a", "s", "s">> @@
    "test.py" :> <<"t", "e", "s", "t", ".", "p", "y">> @@
    "other.py" :> <<"o", "t", "h", "e", "r", ".", "p", "y">> @@
    "OtherClass" :> <<"O", "t", "h", "e", "r", "C", "l", "a", "s", "s">> @@
    "some_function" :> <<"s", "o", "m", "e", "_", "f", "u", "n", "c", "t", "i", "o", "n">> @@
    "external_function" :> <<"e", "x", "t", "e", "r", "n", "a", "l", "_", "f", "u", "n", "c", "t", "i", "o", "n">> @@
    "refactoring_candidates.json" :> <<"r", "e", "f", "a", "c", "t", "o", "r", "i", "n", "g", "_", "c", "a", "n", "d", "i", "d", "a", "t", "e", "s", ".", "j", "s", "o", "n">> @@
    "unused_elements.json" :> <<"u", "n", "u", "s", "e", "d", "_", "e", "l", "e", "m", "e", "n", "t", "s", ".", "j", "s", "o", "n">> @@
    "./refactoring_candidates.json" :> <<".", "/", "r", "e", "f", "a", "c", "t", "o", "r", "i", "n", "g", "_", "c", "a", "n", "d", "i", "d", "a", "t", "e", "s", ".", "j", "s", "o", "n">> @@
    "./unused_elements.json" :> <<".", "/", "u", "n", "u", "s", "e", "d", "_", "e", "l", "e", "m", "e", "n", "t", "s", ".", "j", "s", "o", "n">> @@
    "libs" :> <<"l", "i", "b", "s">> @@
    "./src/libs" :> <<".", "/", "s", "r", "c", "/", "l", "i", "b", "s">> @@
    "./src/libs/models.py" :> <<".", "/", "s", "r", "c", "/", "l", "i", "b", "s", "/", "m", "o", "d", "e", "l", "s", ".", "p", "y">> @@
    "./build/libs" :> <<".", "/", "b", "u", "i", "l", "d", "/", "l", "i", "b", "s">> @@
    "./build/libs/models.py" :> <<".", "/", "b", "u", "i", "l", "d", "/", "l", "i", "b", "s", "/", "m", "o", "d", "e", "l", "s", ".", "p", "y">> @@
    "./rebuild/libs" :> <<".", "/", "r", "e", "b", "u", "i", "l", "d", "/", "l", "i", "b", "s">> @@
    "./rebuild/libs/models.py" :> <<".", "/", "r", "e", "b", "u", "i", "l", "d", "/", "l", "i", "b", "s", "/", "m", "o", "d", "e", "l", "s", ".", "p", "y">> @@
    "./pkg.egg-info/libs" :> <<".", "/", "p", "k", "g", ".", "e", "g", "g", "-", "i", "n", "f", "o", "/", "l", "i", "b", "s">> @@
    "./pkg.egg-info/libs/models.py" :> <<".", "/", "p", "k", "g", ".", "e", "g", "g", "-", "i", "n", "f", "o", "/", "l", "i", "b", "s", "/", "m", "o", "d", "e", "l", "s", ".", "p", "y">> @@
    ".venv" :> <<".", "v", "e", "n", "v">> @@
    "venv" :> <<"v", "e", "n", "v">> @@
    "env" :> <<"e", "n", "v">> @@
    ".env" :> <<".", "e", "n", "v">> @@
    ".virtualenv" :> <<".", "v", "i", "r", "t", "u", "a", "l", "e", "n", "v">> @@
    "virtualenv" :> <<"v", "i", "r", "t", "u", "a", "l", "e", "n", "v">> @@
    "__pycache__" :> <<"_", "_", "p", "y", "c", "a", "c", "h", "e", "_", "_">> @@
    ".pytest_cache" :> <<".", "p", "y", "t", "e", "s", "t", "_", "c", "a", "c", "h", "e">> @@
    ".mypy_cache" :> <<".", "m", "y", "p", "y", "_", "c", "a", "c", "h", "e">> @@
    ".coverage" :> <<".", "c", "o", "v", "e", "r", "a", "g", "e">> @@
    "htmlcov" :> <<"h", "t", "m", "l", "c", "o", "v">> @@
    ".tox" :> <<".", "t", "o", "x">> @@
    ".eggs" :> <<".", "e", "g", "g", "s">> @@
    "*.egg-info" :> <<"*", ".", "e", "g", "g", "-", "i", "n", "f", "o">> @@
    "build" :> <<"b", "u", "i", "l", "d">> @@
    "dist" :> <<"d", "i", "s", "t">> @@
    ".ipynb_checkpoints" :> <<".", "i", "p", "y", "n", "b", "_", "c", "h", "e", "c", "k", "p", "o", "i", "n", "t", "s">> @@
    "layer" :> <<"l", "a", "y", "e", "r">> @@
    "node_modules" :> <<"n", "o", "d", "e", "_", "m", "o", "d", "u", "l", "e", "s">> @@
    ".npm" :> <<".", "n", "p", "m">> @@
    ".yarn" :> <<".", "y", "a", "r", "n">> @@
    ".pnpm" :> <<".", "p", "n", "p", "m">> @@
    "target" :> <<"t", "a", "r", "g", "e", "t">> @@
    ".gradle" :> <<".", "g", "r", "a", "d", "l", "e">> @@
    ".m2" :> <<".", "m", "2">> @@
    ".git" :> <<".", "g", "i", "t">> @@
    ".idea" :> <<".", "i", "d", "e", "a">> @@
    ".vscode" :> <<".", "v", "s", "c", "o", "d", "e">> @@
    ".vs" :> <<".", "v", "s">> @@
    ".history" :> <<".", "h", "i", "s", "t", "o", "r", "y">> @@
    ".aws-sam" :> <<".", "a", "w", "s", "-", "s", "a", "m">> @@
    "cdk.out" :> <<"c", "d", "k", ".", "o", "u", "t">> @@
    ".serverless" :> <<".", "s", "e", "r", "v", "e", "r", "l", "e", "s", "s">> @@
    "bin" :> <<"b", "i", "n">> @@
    "obj" :> <<"o", "b", "j">> @@
    ".cache" :> <<".", "c", "a", "c", "h", "e">> @@
    "vendor" :> <<"v", "e", "n", "d", "o", "r">> @@
    ".bundle" :> <<".", "b", "u", "n", "d", "l", "e">> @@
    ".docker" :> <<".", "d", "o", "c", "k", "e", "r">> @@
    "tmp" :> <<"t", "m", "p">> @@
    "temp" :> <<"t", "e", "m", "p">> @@
    "logs" :> <<"l", "o", "g", "s">> @@
    "" :> <<>> @@
    "." :> <<".">> @@
    "lib" :> <<"l", "i", "b">> @@
    "src" :> <<"s", "r", "c">> @@
    "rebuild" :> <<"r", "e", "b", "u", "i", "l", "d">> @@
    "pkg.egg-info" :> <<"p", "k", "g", ".", "e", "g", "g", "-", "i", "n", "f", "o">> @@
    "tmpl" :> <<"t", "m", "p", "l">> @@
    "./service.py" :> <<".", "/", "s", "e", "r", "v", "i", "c", "e", ".", "p", "y">> @@
    "./models.py" :> <<".", "/", "m", "o", "d", "e", "l", "s", ".", "p", "y">> @@
    "./views.py" :> <<".", "/", "v", "i", "e", "w", "s", ".", "p", "y">> @@
    "pkg" :> <<"p", "k", "g">> @@
    "app" :> <<"a", "p", "p">> @@
    "api" :> <<"a", "p", "i">> @@
    "./pkg" :> <<".", "/", "p", "k", "g">> @@
    "./lib" :> <<".", "/", "l", "i", "b">> @@
    "./app" :> <<".", "/", "a", "p", "p">> @@
    "./api" :> <<".", "/", "a", "p", "i">> @@
    "./pkg/.py" :> <<".", "/", "p", "k", "g", "/", ".", "p", "y">> @@
    "./lib/.py" :> <<".", "/", "l", "i", "b", "/", ".", "p", "y">> @@
    "./app/.py" :> <<".", "/", "a", "p", "p", "/", ".", "p", "y">> @@
    "./api/.py" :> <<".", "/", "a", "p", "i", "/", ".", "p", "y">> @@
    "./user.py" :> <<".", "/", "u", "s", "e", "r", ".", "p", "y">> @@
    "./app.dart" :> <<".", "/", "a", "p", "p", ".", "d", "a", "r", "t">> @@
    "./main.go" :> <<".", "/", "m", "a", "i", "n", ".", "g", "o">> @@
    "./index.js" :> <<".", "/", "i", "n", "d", "e", "x", ".", "j", "s">> @@
    "./README.md" :> <<".", "/", "R", "E", "A", "D", "M", "E", ".", "m", "d">> @@
    "./SETUP.PY" :> <<".", "/", "S", "E", "T", "U", "P", ".", "P", "Y">> @@
    "./src" :> <<".", "/", "s", "r", "c">> @@
    "./src/service.py" :> <<".", "/", "s", "r", "c", "/", "s", "e", "r", "v", "i", "c", "e", ".", "p", "y">> @@
    "./src/tmpl" :> <<".", "/", "s", "r", "c", "/", "t", "m", "p", "l">> @@
    "./src/tmpl/models.py" :> <<".", "/", "s", "r", "c", "/", "t", "m", "p", "l", "/", "m", "o", "d", "e", "l", "s", ".", "p", "y">> @@
    "./build" :> <<".", "/", "b", "u", "i", "l", "d">> @@
    "./build/service.py" :> <<".", "/", "b", "u", "i", "l", "d", "/", "s", "e", "r", "v", "i", "c", "e", ".", "p", "y">> @@
    "./build/tmpl" :> <<".", "/", "b", "u", "i", "l", "d", "/", "t", "m", "p", "l">> @@
    "./build/tmpl/models.py" :> <<".", "/", "b", "u", "i", "l", "d", "/", "t", "m", "p", "l", "/", "m", "o", "d", "e", "l", "s", ".", "p", "y">> @@
    "./rebuild" :> <<".", "/", "r", "e", "b", "u", "i", "l", "d">> @@
    "./rebuild/service.py" :> <<".", "/", "r", "e", "b", "u", "i", "l", "d", "/", "s", "e", "r", "v", "i", "c", "e", ".", "p", "y">> @@
    "./rebuild/tmpl" :> <<".", "/", "r", "e", "b", "u", "i", "l", "d", "/", "t", "m", "p", "l">> @@
    "./rebuild/tmpl/models.py" :> <<".", "/", "r", "e", "b", "u", "i", "l", "d", "/", "t", "m", "p", "l", "/", "m", "o", "d", "e", "l", "s", ".", "p", "y">> @@
    "./pkg.egg-info" :> <<".", "/", "p", "k", "g", ".", "e", "g", "g", "-", "i", "n", "f", "o">> @@
    "./pkg.egg-info/service.py" :> <<".", "/", "p", "k", "g", ".", "e", "g", "g", "-", "i", "n", "f", "o", "/", "s", "e", "r", "v", "i", "c", "e", ".", "p", "y">> @@
    "./pkg.egg-info/tmpl" :> <<".", "/", "p", "k", "g", ".", "e", "g", "g", "-", "i", "n", "f", "o", "/", "t", "m", "p", "l">> @@
    "./pkg.egg-info/tmpl/models.py" :> <<".", "/", "p", "k", "g", ".", "e", "g", "g", "-", "i", "n", "f", "o", "/", "t", "m", "p", "l", "/", "m", "o", "d", "e", "l", "s", ".", "p", "y">> @@
    "deactivate" :> <<"d", "e", "a", "c", "t", "i", "v", "a", "t", "e">> @@
    "_log_status_change" :> <<"_", "l", "o", "g", "_", "s", "t", "a", "t", "u", "s", "_", "c", "h", "a", "n", "g", "e">> @@
    "__init__" :> <<"_", "_", "i", "n", "i", "t", "_", "_">> @@
    "__private" :> <<"_", "_", "p", "r", "i", "v", "a", "t", "e">> @@
    "test_analyzer" :> <<"t", "e", "s", "t", "_", "a", "n", "a", "l", "y", "z", "e", "r">> @@
    "setUp" :> <<"s", "e", "t", "U", "p">> @@
    "tearDown" :> <<"t", "e", "a", "r", "D", "o", "w", "n">> @@
    "main" :> <<"m", "a", "i", "n">> @@
    "get_timestamp" :> <<"g", "e", "t", "_", "t", "i", "m", "e", "s", "t", "a", "m", "p">> @@
    "create" :> <<"c", "r", "e", "a", "t", "e">> @@
    "fetch" :> <<"f", "e", "t", "c", "h">> @@
    "inner" :> <<"i", "n", "n", "e", "r">> @@
    "User" :> <<"U", "s", "e", "r">> @@
    "AbstractUser" :> <<"A", "b", "s", "t", "r", "a", "c", "t", "U", "s", "e", "r">> @@
    "UserInterface" :> <<"U", "s", "e", "r", "I", "n", "t", "e", "r", "f", "a", "c", "e">> @@
    "TestUser" :> <<"T", "e", "s", "t", "U", "s", "e", "r">> @@
    "UserTest" :> <<"U", "s", "e", "r", "T", "e", "s", "t">> @@
    "retries" :> <<"r", "e", "t", "r", "i", "e", "s">> @@
    "MAX_RETRIES" :> <<"M", "A", "X", "_", "R", "E", "T", "R", "I", "E", "S">> @@
    "Max" :> <<"M", "a", "x">> @@
    "__all__" :> <<"_", "_", "a", "l", "l", "_", "_">> @@
    "self" :> <<"s", "e", "l", "f">> @@
    "int" :> <<"i", "n", "t">> @@
    "os" :> <<"o", "s">> @@
    "func" :> <<"f", "u", "n", "c">> @@
    "function" :> <<"f", "u", "n", "c", "t", "i", "o", "n">> @@
    "main.go" :> <<"m", "a", "i", "n", ".", "g", "o">> @@
    "util.go" :> <<"u", "t", "i", "l", ".", "g", "o">> @@
    "app.dart" :> <<"a", "p", "p", ".", "d", "a", "r", "t">> @@
    "index.js" :> <<"i", "n", "d", "e", "x", ".", "j", "s">> @@
    "View.TSX" :> <<"V", "i", "e", "w", ".", "T", "S", "X">> @@
    "README.md" :> <<"R", "E", "A", "D", "M", "E", ".", "m", "d">> @@
    "SETUP.PY" :> <<"S", "E", "T", "U", "P", ".", "P", "Y">> @@
    "user" :> <<"u", "s", "e", "r">> @@
    "user.py" :> <<"u", "s", "e", "r", ".", "p", "y">> @@
    "service.py" :> <<"s", "e", "r", "v", "i", "c", "e", ".", "p", "y">> @@
    "models.py" :> <<"m", "o", "d", "e", "l", "s", ".", "p", "y">> @@
    "views.py" :> <<"v", "i", "e", "w", "s", ".", "p", "y">> @@
    ".py" :> <<".", "p", "y">> @@
    ".dart" :> <<".", "d", "a", "r", "t">> @@
    ".go" :> <<".", "g", "o">> @@
    ".js" :> <<".", "j", "s">> @@
    ".jsx" :> <<".", "j", "s", "x">> @@
    ".ts" :> <<".", "t", "s">> @@
    ".tsx" :> <<".", "t", "s", "x">> @@
    "_" :> <<"_">> @@
    "__" :> <<"_", "_">> @@
    "test_" :> <<"t", "e", "s", "t", "_">> @@
    "Abstract" :> <<"A", "b", "s", "t", "r", "a", "c", "t">> @@
    "Interface" :> <<"I", "n", "t", "e", "r", "f", "a", "c", "e">> @@
    "Test" :> <<"T", "e", "s", "t">>

Chars(s) == CharTable[s]

UpperCase == {"A", "B", "C", "D", "E", "F", "G", "H", "I", "J", "K", "L", "M",
              "N", "O", "P", "Q", "R", "S", "T", "U", "V", "W", "X", "Y", "Z"}

LowerCase == {"a", "b", "c", "d", "e", "f", "g", "h", "i", "j", "k", "l", "m",
              "n", "o", "p", "q", "r", "s", "t", "u", "v", "w", "x", "y", "z"}

\* str.startswith(prefix)
startswith(s, prefix) ==
    LET cs == Chars(s)
        cp == Chars(prefix)
    IN  Len(cp) <= Len(cs) /\ SubSeq(cs, 1, Len(cp)) = cp

\* str.endswith(suffix)
endswith(s, suffix) ==
    LET cs == Chars(s)
        cp == Chars(suffix)
    IN  Len(cp) <= Len(cs) /\ SubSeq(cs, Len(cs) - Len(cp) + 1, Len(cs)) = cp

\* `sub in s` on strings
contains(s, sub) ==
    LET cs == Chars(s)
        cp == Chars(sub)
    IN  \E i \in 0..(Len(cs) - Len(cp)) : SubSeq(cs, i + 1, i + Len(cp)) = cp

\* os.path.join(root, name) for a relative name, on a POSIX system
join(root, name) ==
    LET cr == Chars(root)
        joined == IF cr = <<>> \/ cr[Len(cr)] = "/"
                  THEN cr \o Chars(name)
                  ELSE cr \o <<"/">> \o Chars(name)
    IN  CHOOSE s \in DOMAIN CharTable : CharTable[s] = joined

\* isupper with the test on the first character only
isupper_Initial(s) == Chars(s)[1] \in UpperCase

\* str.isupper(): at least one cased character and no lowercase one
isupper(s) ==
    LET cs == Chars(s)
    IN  /\ \E i \in DOMAIN cs : cs[i] \in UpperCase
        /\ \A i \in DOMAIN cs : cs[i] \notin LowerCase

\* truth value of an Optional[str]
Truthy(v) == v # None /\ v # ""

\* str.lower(), on the spelling
lower(cs) ==
    LET upper == <<"A", "B", "C", "D", "E", "F", "G", "H", "I", "J", "K", "L", "M",
                   "N", "O", "P", "Q", "R", "S", "T", "U", "V", "W", "X", "Y", "Z">>
        small == <<"a", "b", "c", "d", "e", "f", "g", "h", "i", "j", "k", "l", "m",
                   "n", "o", "p", "q", "r", "s", "t", "u", "v", "w", "x", "y", "z">>
    IN  [i \in DOMAIN cs |->
            IF cs[i] \in UpperCase
            THEN small[CHOOSE k \in DOMAIN upper : upper[k] = cs[i]]
            ELSE cs[i]]

\* str.rfind(ch) + 1: the last position of ch, 0 when there is none
rfind(cs, ch) ==
    LET at == {i \in DOMAIN cs : cs[i] = ch}
    IN  IF at = {} THEN 0 ELSE CHOOSE i \in at : \A j \in at : j <= i

\* os.path.splitext(path)[1], as spelling: the text from the last dot of the last
\* path component on, unless only dots come before that dot in the component
splitext_ext(path) ==
    LET cs == Chars(path)
        sepIndex == rfind(cs, "/")
        dotIndex == rfind(cs, ".")
    IN  IF dotIndex > sepIndex /\ \E k \in (sepIndex + 1)..(dotIndex - 1) : cs[k] # "."
        THEN SubSeq(cs, dotIndex, Len(cs))
        ELSE <<>>

(***************************************************************************)
(* The namedtuples.                                                        *)
(***************************************************************************)
FunctionInfo(name, file, class_name, lineno) ==
    [name |-> name, file |-> file, class_name |-> class_name, lineno |-> lineno]

\* a CallInfo whose target unit is where the class of the hint lives
CallInfo_TargetByHint(name, file, class_name, caller_file, caller_class, caller_function) ==
    [name |-> name, file |-> IF class_name = "User" THEN "user.py" ELSE file,
     class_name |-> class_name, caller_file |-> caller_file,
     caller_class |-> caller_class, caller_function |-> caller_function]

CallInfo(name, file, class_name, caller_file, caller_class, caller_function) ==
    [name |-> name, file |-> file, class_name |-> class_name, caller_file |-> caller_file,
     caller_class |-> caller_class, caller_function |-> caller_function]

VariableInfo(name, file, class_name, function_name, lineno, is_constant) ==
    [name |-> name, file |-> file, class_name |-> class_name,
     function_name |-> function_name, lineno |-> lineno, is_constant |-> is_constant]

ClassInfo(name, file, lineno) == [name |-> name, file |-> file, lineno |-> lineno]

(***************************************************************************)
(* The classifiers.  Each for-loop is a function of the number of          *)
(* iterations done.                                                        *)
(***************************************************************************)
\* dict.get(key, default)
DictGet(d, key, default) == IF key \in DOMAIN d THEN d[key] ELSE default

\* FuncId without the class component
FuncId_NoClass(r) == <<r.file, r.name, None>>

\* a plain tuple put into self.calls: it has six items and no attribute `file`
PlainTuple(items) == [tuple |-> items]

IsCallInfo(call) == "tuple" \notin DOMAIN call

\* the loop of get_call_count comes to an entry of self.calls that is not a CallInfo:
\* line 360 reads call.file and raises AttributeError
AttributeError(cs) == \E j \in DOMAIN cs : ~IsCallInfo(cs[j])

\* what the caller of a method that ran into the AttributeError of line 360 gets:
\* no value, the exception
Raised(op) ==
    [op |-> CASE op = "get_call_count" -> "get_call_count: AttributeError"
              [] op = "find_private_candidates" -> "find_private_candidates: AttributeError"
              [] op = "find_unused_functions" -> "find_unused_functions: AttributeError"
              [] op = "find_all_unused_elements" -> "find_all_unused_elements: AttributeError",
     value |-> <<>>]

\* func_id = (file, name, class_name)
FuncId(r) == <<r.file, r.name, r.class_name>>

get_call_count(cs) ==
    LET call_count[i \in 0..Len(cs)] ==
            IF i = 0 THEN <<>>
            ELSE LET func_id == FuncId(cs[i])
                     before == call_count[i - 1]
                 IN  (func_id :> (DictGet(before, func_id, 0) + 1)) @@ before
    IN  call_count[Len(cs)]

\* CallersOf matching on the name alone
CallersOf_ByName(func_id, cs) ==
    {<<cs[i].caller_file, cs[i].caller_class, cs[i].caller_function>> :
        i \in {j \in DOMAIN cs : cs[j].name = func_id[2]}}

\* the callers set built at lines 380-383
CallersOf(func_id, cs) ==
    {<<cs[i].caller_file, cs[i].caller_class, cs[i].caller_function>> :
        i \in {j \in DOMAIN cs : FuncId(cs[j]) = func_id}}

CallerDict(caller) == [file |-> caller[1], class |-> caller[2], function |-> caller[3]]

\* line 372: methods already named as private are skipped
CandidateSkip(name) == startswith(name, "_")

\* IsCandidate without the enclosing-class test
IsCandidate_NoClassTest(func, count, callers) ==
    /\ count = 1
    /\ \A caller \in callers : caller[1] = func.file

\* the tests of lines 386 and 388
IsCandidate(func, count, callers) ==
    /\ count = 1
    /\ \A caller \in callers : caller[1] = func.file
    /\ Truthy(func.class_name)

\* the dict of lines 389-395; the callers list is built from a set, so its order is
\* not fixed and it is kept as a set
CandidateFinding(func, callers) ==
    [file |-> func.file, class |-> func.class_name, method |-> func.name,
     line |-> func.lineno, callers |-> {CallerDict(c) : c \in callers}]

find_private_candidates(fs, cs) ==
    LET call_count == get_call_count(cs)
        out[i \in 0..Len(fs)] ==
            IF i = 0 THEN <<>>
            ELSE LET func == fs[i]
                     func_id == FuncId(func)
                     count == DictGet(call_count, func_id, 0)
                     callers == CallersOf(func_id, cs)
                 IN  IF CandidateSkip(func.name) THEN out[i - 1]
                     ELSE IF IsCandidate(func, count, callers)
                          THEN Append(out[i - 1], CandidateFinding(func, callers))
                          ELSE out[i - 1]
    IN  out[Len(fs)]

\* UnusedFunctionSkip taking every name with two leading underscores for a dunder
UnusedFunctionSkip_LeadingOnly(name) ==
    \/ startswith(name, "test_") \/ name = "setUp" \/ name = "tearDown"
    \/ name = "main"
    \/ startswith(name, "__")

\* UnusedFunctionSkip without the entry-point test
UnusedFunctionSkip_NoMain(name) ==
    \/ startswith(name, "test_") \/ name = "setUp" \/ name = "tearDown"
    \/ (startswith(name, "__") /\ endswith(name, "__"))

\* the three `continue` tests of find_unused_functions
UnusedFunctionSkip(name) ==
    \/ startswith(name, "test_") \/ name = "setUp" \/ name = "tearDown"
    \/ name = "main"
    \/ (startswith(name, "__") /\ endswith(name, "__"))

find_unused_functions(fs, cs) ==
    LET call_count == get_call_count(cs)
        out[i \in 0..Len(fs)] ==
            IF i = 0 THEN <<>>
            ELSE LET func == fs[i]
                     count == DictGet(call_count, FuncId(func), 0)
                 IN  IF UnusedFunctionSkip(func.name) THEN out[i - 1]
                     ELSE IF count = 0
                          THEN Append(out[i - 1],
                                      [type |-> "function", file |-> func.file,
                                       class |-> func.class_name, name |-> func.name,
                                       line |-> func.lineno])
                          ELSE out[i - 1]
    IN  out[Len(fs)]

\* UnusedClassSkip testing the prefixes only
UnusedClassSkip_PrefixOnly(name) ==
    startswith(name, "Abstract") \/ startswith(name, "Test")

\* the two `continue` tests of find_unused_classes
UnusedClassSkip(name) ==
    \/ startswith(name, "Abstract") \/ endswith(name, "Interface")
    \/ startswith(name, "Test") \/ endswith(name, "Test")

find_unused_classes(cls, uses) ==
    LET out[i \in 0..Len(cls)] ==
            IF i = 0 THEN <<>>
            ELSE LET c == cls[i]
                 IN  IF UnusedClassSkip(c.name) THEN out[i - 1]
                     ELSE IF c.name \notin uses
                          THEN Append(out[i - 1],
                                      [type |-> "class", file |-> c.file,
                                       name |-> c.name, line |-> c.lineno])
                          ELSE out[i - 1]
    IN  out[Len(cls)]

\* IsUsed without the same-file test
IsUsed_AnyFile(var, uses) ==
    \E k \in DOMAIN uses : var.name = uses[k][1]

\* the inner loop of find_unused_variables (lines 471-477)
IsUsed(var, uses) ==
    \E k \in DOMAIN uses : var.name = uses[k][1] /\ uses[k][2] = var.file

find_unused_variables(vs, uses) ==
    LET out[i \in 0..Len(vs)] ==
            IF i = 0 THEN <<>>
            ELSE LET var == vs[i]
                 IN  IF var.function_name # None THEN out[i - 1]
                     ELSE IF startswith(var.name, "__") /\ endswith(var.name, "__")
                          THEN out[i - 1]
                     ELSE IF ~IsUsed(var, uses)
                          THEN Append(out[i - 1],
                                      [type |-> "variable", file |-> var.file,
                                       class |-> var.class_name, name |-> var.name,
                                       is_constant |-> var.is_constant,
                                       line |-> var.lineno])
                          ELSE out[i - 1]
    IN  out[Len(vs)]

\* find_all_unused_elements keeping, of the entries with one name, the first only
find_all_unused_elements_ByName(fs, cs, cls, cuses, vs, vuses) ==
    LET all == find_unused_functions(fs, cs) \o find_unused_classes(cls, cuses)
                  \o find_unused_variables(vs, vuses)
        kept[i \in 0..Len(all)] ==
            IF i = 0 THEN <<>>
            ELSE IF \E k \in 1..(i - 1) : all[k].name = all[i].name
                 THEN kept[i - 1]
                 ELSE Append(kept[i - 1], all[i])
    IN  kept[Len(all)]

find_all_unused_elements(fs, cs, cls, cuses, vs, vuses) ==
    find_unused_functions(fs, cs) \o find_unused_classes(cls, cuses)
        \o find_unused_variables(vs, vuses)

(***************************************************************************)
(* The syntax trees ast.parse returns.  A node is a record; `type` is the  *)
(* node's class name, which ast.NodeVisitor.visit dispatches on.           *)
(***************************************************************************)
Module(body) == [type |-> "Module", body |-> body]

ClassDef(name, lineno, body) ==
    [type |-> "ClassDef", name |-> name, lineno |-> lineno, body |-> body]

FunctionDef(name, lineno, body) ==
    [type |-> "FunctionDef", name |-> name, lineno |-> lineno, body |-> body]

AsyncFunctionDef(name, lineno, body) ==
    [type |-> "AsyncFunctionDef", name |-> name, lineno |-> lineno, body |-> body]

Assign(targets, value, lineno) ==
    [type |-> "Assign", targets |-> targets, value |-> value, lineno |-> lineno]

AnnAssign(target, annotation, value, lineno) ==
    [type |-> "AnnAssign", target |-> target, annotation |-> annotation,
     value |-> value, lineno |-> lineno]

Expr(value) == [type |-> "Expr", value |-> value]

Pass == [type |-> "Pass"]

Call(func, args) == [type |-> "Call", func |-> func, args |-> args]

Attribute(value, attr, ctx) ==
    [type |-> "Attribute", value |-> value, attr |-> attr, ctx |-> ctx]

Subscript(value, slice, ctx) ==
    [type |-> "Subscript", value |-> value, slice |-> slice, ctx |-> ctx]

Name(id, ctx) == [type |-> "Name", id |-> id, ctx |-> ctx]

Constant == [type |-> "Constant"]

TupleNode(elts, ctx) == [type |-> "Tuple", elts |-> elts, ctx |-> ctx]

alias(name) == [type |-> "alias", name |-> name]

Import(names) == [type |-> "Import", names |-> names]

ImportFrom(names) == [type |-> "ImportFrom", names |-> names]

\* ast.iter_child_nodes, in the order of the class's _fields, less the children
\* that hold no node and no data: the Load() / Store() of a Name, Attribute,
\* Subscript or Tuple and the `arguments` of a def without parameters
Children(node) ==
    CASE node.type \in {"Module", "ClassDef", "FunctionDef", "AsyncFunctionDef"} -> node.body
      [] node.type = "Assign" -> node.targets \o <<node.value>>
      [] node.type = "AnnAssign" -> <<node.target, node.annotation, node.value>>
      [] node.type = "Expr" -> <<node.value>>
      [] node.type = "Call" -> <<node.func>> \o node.args
      [] node.type = "Attribute" -> <<node.value>>
      [] node.type = "Subscript" -> <<node.value, node.slice>>
      [] node.type = "Tuple" -> node.elts
      [] node.type \in {"Import", "ImportFrom"} -> node.names
      [] OTHER -> <<>>

\* the node classes that have one of the children left out of Children
WithBareChild == {"FunctionDef", "AsyncFunctionDef", "Name", "Attribute", "Subscript", "Tuple"}

\* the largest of a non-empty set of numbers
Max(S) == CHOOSE m \in S : \A k \in S : k <= m

\* The Python frames NodeVisitor.visit(node) stacks up: visit, the visit_<Class>
\* method where the visitor (or NodeVisitor itself, for Constant) defines one,
\* generic_visit, and below it either iter_fields or the visit of a child.  A bare
\* child takes three: visit, generic_visit, iter_fields.
RECURSIVE VisitFrames(_, _)
VisitFrames(node, custom) ==
    LET kids == Children(node)
        bare == IF node.type \in WithBareChild THEN {3} ELSE {}
    IN  1 + (IF node.type \in custom THEN 1 ELSE 0) + 1
          + Max({1} \cup bare \cup {VisitFrames(kids[i], custom) : i \in DOMAIN kids})

(***************************************************************************)
(* FunctionVisitor.                                                        *)
(***************************************************************************)
\* a visitor that starts out inside the class an earlier unit ended in
FunctionVisitor_Stale(filename) ==
    [filename |-> filename, current_class |-> "User", functions |-> <<>>,
     classes |-> <<>>, variables |-> <<>>, current_function |-> None]

FunctionVisitor(filename) ==
    [filename |-> filename, current_class |-> None, functions |-> <<>>,
     classes |-> <<>>, variables |-> <<>>, current_function |-> None]

RECURSIVE FV_visit(_, _)
RECURSIVE FV_visit_each(_, _)

\* NodeVisitor.generic_visit
FV_generic_visit(node, v) == FV_visit_each(Children(node), v)

FV_visit_ClassDef(node, v) ==
    LET old_class == v.current_class
        entered == [v EXCEPT !.classes = Append(@, ClassInfo(node.name, v.filename, node.lineno)),
                             !.current_class = node.name]
    IN  [FV_generic_visit(node, entered) EXCEPT !.current_class = old_class]

FV_visit_FunctionDef(node, v) ==
    LET old_function == v.current_function
        entered == [v EXCEPT !.functions = Append(@, FunctionInfo(node.name, v.filename,
                                                                 v.current_class, node.lineno)),
                             !.current_function = node.name]
    IN  [FV_generic_visit(node, entered) EXCEPT !.current_function = old_function]

\* the VariableInfo both assignment visitors append for a Name target
VariableOf(target, node, v) ==
    VariableInfo(target.id, v.filename, v.current_class, v.current_function,
                 node.lineno, isupper(target.id))

FV_visit_Assign(node, v) ==
    LET recorded[i \in 0..Len(node.targets)] ==
            IF i = 0 THEN v.variables
            ELSE IF node.targets[i].type = "Name"
                 THEN Append(recorded[i - 1], VariableOf(node.targets[i], node, v))
                 ELSE recorded[i - 1]
    IN  FV_generic_visit(node, [v EXCEPT !.variables = recorded[Len(node.targets)]])

FV_visit_AnnAssign(node, v) ==
    LET after == IF node.target.type = "Name"
                 THEN [v EXCEPT !.variables = Append(@, VariableOf(node.target, node, v))]
                 ELSE v
    IN  FV_generic_visit(node, after)

\* NodeVisitor.visit: getattr(self, 'visit_' + classname, self.generic_visit)
FV_visit(node, v) ==
    CASE node.type = "ClassDef" -> FV_visit_ClassDef(node, v)
      [] node.type = "FunctionDef" -> FV_visit_FunctionDef(node, v)
      [] node.type = "Assign" -> FV_visit_Assign(node, v)
      [] node.type = "AnnAssign" -> FV_visit_AnnAssign(node, v)
      [] OTHER -> FV_generic_visit(node, v)

FV_visit_each(nodes, v) ==
    IF nodes = <<>> THEN v ELSE FV_visit_each(Tail(nodes), FV_visit(Head(nodes), v))

(***************************************************************************)
(* CallVisitor.                                                            *)
(***************************************************************************)
CallVisitor(filename) ==
    [filename |-> filename, current_class |-> None, current_function |-> None,
     calls |-> <<>>, variable_uses |-> <<>>, class_uses |-> {}]

RECURSIVE CV_visit(_, _)
RECURSIVE CV_visit_each(_, _)

CV_generic_visit(node, v) == CV_visit_each(Children(node), v)

CV_visit_ClassDef(node, v) ==
    LET old_class == v.current_class
    IN  [CV_generic_visit(node, [v EXCEPT !.current_class = node.name])
            EXCEPT !.current_class = old_class]

CV_visit_FunctionDef(node, v) ==
    LET old_function == v.current_function
    IN  [CV_generic_visit(node, [v EXCEPT !.current_function = node.name])
            EXCEPT !.current_function = old_function]

\* visit_Call treating `self` like any other receiver
CV_visit_Call_SelfVerbatim(node, v) ==
    LET method == node.func.type = "Attribute" /\ node.func.value.type = "Name"
        direct == ~method /\ node.func.type = "Name"
        func_name == IF method THEN node.func.attr
                     ELSE IF direct THEN node.func.id ELSE None
        class_name == IF method THEN node.func.value.id ELSE None
        uses == IF method THEN v.class_uses \cup {node.func.value.id} ELSE v.class_uses
        recorded == IF Truthy(func_name)
                    THEN Append(v.calls, CallInfo(func_name, v.filename, class_name,
                                                  v.filename, v.current_class,
                                                  v.current_function))
                    ELSE v.calls
    IN  CV_generic_visit(node, [v EXCEPT !.calls = recorded, !.class_uses = uses])

\* visit_Call taking every simple receiver for an instance of the enclosing class
CV_visit_Call_ReceiverAsSelf(node, v) ==
    LET method == node.func.type = "Attribute" /\ node.func.value.type = "Name"
        direct == ~method /\ node.func.type = "Name"
        func_name == IF method THEN node.func.attr
                     ELSE IF direct THEN node.func.id ELSE None
        class_name == IF method THEN v.current_class ELSE None
        uses == IF method /\ node.func.value.id # "self"
                THEN v.class_uses \cup {node.func.value.id}
                ELSE v.class_uses
        recorded == IF Truthy(func_name)
                    THEN Append(v.calls, CallInfo(func_name, v.filename, class_name,
                                                  v.filename, v.current_class,
                                                  v.current_function))
                    ELSE v.calls
    IN  CV_generic_visit(node, [v EXCEPT !.calls = recorded, !.class_uses = uses])

\* visit_Call taking the last attribute of any attribute callee for the method name
CV_visit_Call_AnyAttribute(node, v) ==
    LET method == node.func.type = "Attribute"
        named == method /\ node.func.value.type = "Name"
        direct == ~method /\ node.func.type = "Name"
        func_name == IF method THEN node.func.attr
                     ELSE IF direct THEN node.func.id ELSE None
        class_name == IF named
                      THEN IF node.func.value.id = "self" THEN v.current_class
                           ELSE node.func.value.id
                      ELSE None
        uses == IF named /\ node.func.value.id # "self"
                THEN v.class_uses \cup {node.func.value.id}
                ELSE v.class_uses
        recorded == IF Truthy(func_name)
                    THEN Append(v.calls, CallInfo(func_name, v.filename, class_name,
                                                  v.filename, v.current_class,
                                                  v.current_function))
                    ELSE v.calls
    IN  CV_generic_visit(node, [v EXCEPT !.calls = recorded, !.class_uses = uses])

CV_visit_Call(node, v) ==
    LET method == node.func.type = "Attribute" /\ node.func.value.type = "Name"
        direct == ~method /\ node.func.type = "Name"
        func_name == IF method THEN node.func.attr
                     ELSE IF direct THEN node.func.id ELSE None
        class_name == IF method
                      THEN IF node.func.value.id = "self" THEN v.current_class
                           ELSE node.func.value.id
                      ELSE None
        uses == IF method /\ node.func.value.id # "self"
                THEN v.class_uses \cup {node.func.value.id}
                ELSE v.class_uses
        recorded == IF Truthy(func_name)
                    THEN Append(v.calls, CallInfo(func_name, v.filename, class_name,
                                                  v.filename, v.current_class,
                                                  v.current_function))
                    ELSE v.calls
    IN  CV_generic_visit(node, [v EXCEPT !.calls = recorded, !.class_uses = uses])

CV_visit_Name(node, v) ==
    LET after == IF node.ctx = "Load"
                 THEN [v EXCEPT !.variable_uses =
                          Append(@, <<node.id, v.filename, v.current_class, v.current_function>>)]
                 ELSE v
    IN  CV_generic_visit(node, after)

\* visit_Import and visit_ImportFrom have the same body
CV_visit_Import(node, v) ==
    CV_generic_visit(node, [v EXCEPT !.class_uses =
                               @ \cup {node.names[i].name : i \in DOMAIN node.names}])

CV_visit(node, v) ==
    CASE node.type = "ClassDef" -> CV_visit_ClassDef(node, v)
      [] node.type = "FunctionDef" -> CV_visit_FunctionDef(node, v)
      [] node.type = "Call" -> CV_visit_Call(node, v)
      [] node.type = "Name" -> CV_visit_Name(node, v)
      [] node.type \in {"Import", "ImportFrom"} -> CV_visit_Import(node, v)
      [] OTHER -> CV_generic_visit(node, v)

CV_visit_each(nodes, v) ==
    IF nodes = <<>> THEN v ELSE CV_visit_each(Tail(nodes), CV_visit(Head(nodes), v))

(***************************************************************************)
(* CodeAnalyzer: construction and the extraction of one unit.  An analyzer *)
(* is the record of its six collections.                                   *)
(***************************************************************************)
\* CodeAnalyzer.__init__(self, ...): the six assignments of lines 191-196
CodeAnalyzerInit(self) ==
    [self EXCEPT !.functions = <<>>, !.calls = <<>>, !.variables = <<>>,
                 !.variable_uses = <<>>, !.classes = <<>>, !.class_uses = {}]

\* the directory names __init__ puts into self.skip_directories (lines 199-220):
\* `build` is listed twice, and `*.egg-info` is an ordinary string
DefaultSkipDirectories ==
    {".venv", "venv", "env", ".env", ".virtualenv", "virtualenv",
     "__pycache__", ".pytest_cache", ".mypy_cache", ".coverage", "htmlcov",
     ".tox", ".eggs", "*.egg-info", "build", "dist", ".ipynb_checkpoints",
     "layer", "node_modules", ".npm", ".yarn", ".pnpm", "target", ".gradle",
     ".m2", ".git", ".idea", ".vscode", ".vs", ".history", ".aws-sam",
     "cdk.out", ".serverless", "bin", "obj", ".cache", "vendor", ".bundle",
     ".docker", "tmp", "temp", "logs"}

\* self.skip_directories after __init__(directory, extra), lines 199-224
skip_directories(extra) == DefaultSkipDirectories \cup {extra[i] : i \in DOMAIN extra}

Analyzer ==
    [functions |-> functions, calls |-> calls, variables |-> variables,
     variable_uses |-> variable_uses, classes |-> classes, class_uses |-> class_uses]

\* sys.getrecursionlimit().  CPython's default is 1000, which `f` followed by 329
\* pairs of parentheses exhausts in CallVisitor; the interpreter modelled here runs
\* with a lower limit, so that a chain of ten calls does.
RecursionLimit == 40

\* the frames below the visitors' visit(tree): <module>, main, analyze,
\* _analyze_file, _analyze_python_file
StackBase == 5

\* the node classes FunctionVisitor / CallVisitor have a visit_ method for
\* (visit_Constant is NodeVisitor's own)
FV_methods == {"ClassDef", "FunctionDef", "Assign", "AnnAssign", "Constant"}
CV_methods == {"ClassDef", "FunctionDef", "Call", "Name", "Import", "ImportFrom", "Constant"}

\* visit(tree) ends in RecursionError
FV_raises(tree) == StackBase + VisitFrames(tree, FV_methods) > RecursionLimit
CV_raises(tree) == StackBase + VisitFrames(tree, CV_methods) > RecursionLimit

\* what a call leaves: whether an exception came out of it, and the analyzer
Returns(self) == [raised |-> FALSE, self |-> self]
Raises(self) == [raised |-> TRUE, self |-> self]

\* line 292 assigning the visitor's used names instead of adding them
analyze_python_file_UsesAssigned(self, unit) ==
    IF ~unit.readable \/ unit.parse_error THEN Raises(self)
    ELSE IF FV_raises(unit.tree) THEN Raises(self)
    ELSE LET function_visitor == FV_visit(unit.tree, FunctionVisitor(unit.path))
             collected == [self EXCEPT
                              !.functions = @ \o function_visitor.functions,
                              !.classes = @ \o function_visitor.classes,
                              !.variables = @ \o function_visitor.variables]
         IN  IF CV_raises(unit.tree) THEN Raises(collected)
             ELSE LET call_visitor == CV_visit(unit.tree, CallVisitor(unit.path))
                  IN  Returns([collected EXCEPT
                                  !.calls = @ \o call_visitor.calls,
                                  !.variable_uses = @ \o call_visitor.variable_uses,
                                  !.class_uses = call_visitor.class_uses])

\* _analyze_python_file: open/read, ast.parse, FunctionVisitor and its three
\* extends, CallVisitor and its three extends
analyze_python_file(self, unit) ==
    IF ~unit.readable \/ unit.parse_error THEN Raises(self)
    ELSE IF FV_raises(unit.tree) THEN Raises(self)
    ELSE LET function_visitor == FV_visit(unit.tree, FunctionVisitor(unit.path))
             collected == [self EXCEPT
                              !.functions = @ \o function_visitor.functions,
                              !.classes = @ \o function_visitor.classes,
                              !.variables = @ \o function_visitor.variables]
         IN  IF CV_raises(unit.tree) THEN Raises(collected)
             ELSE LET call_visitor == CV_visit(unit.tree, CallVisitor(unit.path))
                  IN  Returns([collected EXCEPT
                                  !.calls = @ \o call_visitor.calls,
                                  !.variable_uses = @ \o call_visitor.variable_uses,
                                  !.class_uses = @ \cup call_visitor.class_uses])

\* The lines a text file is made of.  A line holds at most one statement and ends
\* in `{` or `;`, so no match of the patterns below runs over a line end.
TextLines ==
    {"void create() {",
     "func create() {",
     "func (u *User) deactivate() {",
     "function create() {",
     "create: function() {",
     "user.create();",
     "u.deactivate();",
     "main();"}

\* group(1) of the matches re.finditer yields on one line, in order, for the
\* function pattern and the call pattern of _analyze_dart_file (lines 301-302),
\* _analyze_go_file (line 310) and _analyze_js_file (line 318); None where the
\* match came from the alternative that has no group 1
GroupTable ==
    "dart_func" :>
       ("void create() {" :> <<"create">> @@
          "func create() {" :> <<"create">> @@
          "func (u *User) deactivate() {" :> <<"func", "deactivate">> @@
          "function create() {" :> <<"create">> @@
          "create: function() {" :> <<"function">> @@
          "user.create();" :> <<"create">> @@
          "u.deactivate();" :> <<"deactivate">> @@
          "main();" :> <<"main">>) @@
    "dart_call" :>
       ("void create() {" :> <<"create">> @@
          "func create() {" :> <<"create">> @@
          "func (u *User) deactivate() {" :> <<"func", "deactivate">> @@
          "function create() {" :> <<"create">> @@
          "create: function() {" :> <<"function">> @@
          "user.create();" :> <<"create">> @@
          "u.deactivate();" :> <<"deactivate">> @@
          "main();" :> <<"main">>) @@
    "go_func" :>
       ("void create() {" :> <<>> @@
          "func create() {" :> <<"create">> @@
          "func (u *User) deactivate() {" :> <<"deactivate">> @@
          "function create() {" :> <<>> @@
          "create: function() {" :> <<>> @@
          "user.create();" :> <<>> @@
          "u.deactivate();" :> <<>> @@
          "main();" :> <<>>) @@
    "go_call" :>
       ("void create() {" :> <<>> @@
          "func create() {" :> <<>> @@
          "func (u *User) deactivate() {" :> <<>> @@
          "function create() {" :> <<>> @@
          "create: function() {" :> <<>> @@
          "user.create();" :> <<"create">> @@
          "u.deactivate();" :> <<"deactivate">> @@
          "main();" :> <<>>) @@
    "js_func" :>
       ("void create() {" :> <<>> @@
          "func create() {" :> <<>> @@
          "func (u *User) deactivate() {" :> <<>> @@
          "function create() {" :> <<"create">> @@
          "create: function() {" :> <<None>> @@
          "user.create();" :> <<>> @@
          "u.deactivate();" :> <<>> @@
          "main();" :> <<>>) @@
    "js_call" :>
       ("void create() {" :> <<>> @@
          "func create() {" :> <<>> @@
          "func (u *User) deactivate() {" :> <<>> @@
          "function create() {" :> <<>> @@
          "create: function() {" :> <<>> @@
          "user.create();" :> <<"create">> @@
          "u.deactivate();" :> <<"deactivate">> @@
          "main();" :> <<>>)

\* re.finditer(pattern, content): the matches line by line, each with group(1) and
\* content[:match.start()].count('\n') + 1
finditer(pattern, lines) ==
    LET found[i \in 0..Len(lines)] ==
            IF i = 0 THEN <<>>
            ELSE LET groups == GroupTable[pattern][lines[i]]
                 IN  found[i - 1] \o [k \in DOMAIN groups |-> [group1 |-> groups[k], line |-> i]]
    IN  found[Len(lines)]

\* _analyze_text_based with a class guessed for what it finds
analyze_text_based_Scoped(self, unit, func_pattern, call_pattern) ==
    IF ~unit.readable THEN Raises(self)
    ELSE LET fm == finditer(func_pattern, unit.lines)
             cm == finditer(call_pattern, unit.lines)
             fs[i \in 0..Len(fm)] ==
                 IF i = 0 THEN self.functions
                 ELSE IF Truthy(fm[i].group1)
                      THEN Append(fs[i - 1], FunctionInfo(fm[i].group1, unit.path, "User",
                                                          fm[i].line))
                      ELSE fs[i - 1]
             cs[i \in 0..Len(cm)] ==
                 IF i = 0 THEN self.calls
                 ELSE IF Truthy(cm[i].group1)
                      THEN Append(cs[i - 1], CallInfo(cm[i].group1, unit.path, "User",
                                                      unit.path, None, None))
                      ELSE cs[i - 1]
         IN  Returns([self EXCEPT !.functions = fs[Len(fm)], !.calls = cs[Len(cm)]])

\* _analyze_text_based: open and read the file, then one FunctionInfo per match of
\* func_pattern and one CallInfo per match of call_pattern whose group(1) is truthy
analyze_text_based(self, unit, func_pattern, call_pattern) ==
    IF ~unit.readable THEN Raises(self)
    ELSE LET fm == finditer(func_pattern, unit.lines)
             cm == finditer(call_pattern, unit.lines)
             fs[i \in 0..Len(fm)] ==
                 IF i = 0 THEN self.functions
                 ELSE IF Truthy(fm[i].group1)
                      THEN Append(fs[i - 1], FunctionInfo(fm[i].group1, unit.path, None,
                                                          fm[i].line))
                      ELSE fs[i - 1]
             cs[i \in 0..Len(cm)] ==
                 IF i = 0 THEN self.calls
                 ELSE IF Truthy(cm[i].group1)
                      THEN Append(cs[i - 1], CallInfo(cm[i].group1, unit.path, None,
                                                      unit.path, None, None))
                      ELSE cs[i - 1]
         IN  Returns([self EXCEPT !.functions = fs[Len(fm)], !.calls = cs[Len(cm)]])

analyze_dart_file(self, unit) == analyze_text_based(self, unit, "dart_func", "dart_call")

analyze_go_file(self, unit) == analyze_text_based(self, unit, "go_func", "go_call")

analyze_js_file(self, unit) == analyze_text_based(self, unit, "js_func", "js_call")

\* the body of _analyze_file's try: the dispatch on the extension
analyze_file_try(self, unit) ==
    LET ext == lower(splitext_ext(unit.path))
    IN  IF ext = Chars(".py") THEN analyze_python_file(self, unit)
        ELSE IF ext = Chars(".dart") THEN analyze_dart_file(self, unit)
        ELSE IF ext = Chars(".go") THEN analyze_go_file(self, unit)
        ELSE IF ext \in {Chars(".js"), Chars(".jsx"), Chars(".ts"), Chars(".tsx")}
             THEN analyze_js_file(self, unit)
             ELSE Returns(self)

\* _analyze_file without the except clause
analyze_file_Uncaught(self, unit) == analyze_file_try(self, unit)

\* _analyze_file: `except Exception` prints and returns
analyze_file(self, unit) == Returns(analyze_file_try(self, unit).self)

\* the analyzer a classifier method leaves behind: get_call_count and the find_
\* methods read the six collections and build new lists
AfterQuery(self) == self

(***************************************************************************)
(* main(): the source tree it is run on.  Two units, user.py and           *)
(* service.py; user.py holds up to MaxStmts top-level statements.          *)
(***************************************************************************)
MaxStmts == 2

Load == "Load"
Store == "Store"

VarNames == {"retries", "MAX_RETRIES", "__all__", "Max"}

ClassNames == {"User", "AbstractUser", "UserInterface", "TestUser", "UserTest"}

\* `name = 1`, `name: int = 1` and the expression statement `name`, at line l
VariableStmts(l) ==
    {Assign(<<Name(n, Store)>>, Constant, l) : n \in VarNames}
        \cup {AnnAssign(Name(n, Store), Name("int", Load), Constant, l) :
                n \in {"retries", "MAX_RETRIES"}}
        \cup {Expr(Name(n, Load)) : n \in {"retries", "MAX_RETRIES"}}

\* function bodies: an assignment, an annotated one, a read, a nested def
FunctionStmts(l) ==
    {FunctionDef("main", l, <<s>>) :
        s \in {Assign(<<Name("retries", Store)>>, Constant, l + 1),
               AnnAssign(Name("MAX_RETRIES", Store), Name("int", Load), Constant, l + 1),
               Expr(Name("MAX_RETRIES", Load)),
               Expr(Call(Name("get_timestamp", Load), <<>>)),
               FunctionDef("inner", l + 1,
                           <<Assign(<<Name("retries", Store)>>, Constant, l + 2)>>)}}
        \cup {FunctionDef("get_timestamp", l, <<Pass>>),
              AsyncFunctionDef("fetch", l,
                               <<Assign(<<Name("retries", Store)>>, Constant, l + 1)>>)}

\* classes: a bare one per name, class-level variables, methods
ClassStmts(l) ==
    {ClassDef(n, l, <<Pass>>) : n \in ClassNames}
        \cup {ClassDef("User", l, <<Assign(<<Name(n, Store)>>, Constant, l + 1)>>) :
                n \in {"retries", "MAX_RETRIES"}}
        \cup {ClassDef("User", l,
                       <<FunctionDef("deactivate", l + 1,
                             <<Expr(Call(Attribute(Name("self", Load), "_log_status_change", Load),
                                         <<>>))>>),
                         FunctionDef("_log_status_change", l + 3,
                             <<Assign(<<Name("MAX_RETRIES", Store)>>, Constant, l + 4)>>)>>),
              ClassDef("User", l, <<FunctionDef("create", l + 1, <<Pass>>)>>),
              ClassDef("User", l,
                       <<AsyncFunctionDef("fetch", l + 1,
                             <<AnnAssign(Name("retries", Store), Name("int", Load),
                                         Constant, l + 2)>>)>>)}

\* uses of a class name: as a call receiver, as a bare call, in an import
UseStmts ==
    {Expr(Call(Attribute(Name(r, Load), "create", Load), <<>>)) : r \in {"User", "self"}}
        \cup {Expr(Call(Name("User", Load), <<>>)),
              ImportFrom(<<alias("User")>>),
              Import(<<alias("os")>>)}

TopStmts(l) == VariableStmts(l) \cup FunctionStmts(l) \cup ClassStmts(l) \cup UseStmts

\* the bodies of k statements; statement i starts at line 10 * i - 9
RECURSIVE ModuleBodies(_)
ModuleBodies(k) ==
    IF k = 0 THEN {<<>>}
    ELSE {Append(b, s) : b \in ModuleBodies(k - 1), s \in TopStmts(10 * k - 9)}

SourceUnit(path, tree) ==
    [path |-> path, readable |-> TRUE, parse_error |-> FALSE, tree |-> tree]

\* a file ast.parse rejects
BrokenUnit(path) ==
    [path |-> path, readable |-> TRUE, parse_error |-> TRUE, tree |-> Module(<<>>)]

\* a file open() or read() fails on
UnreadableUnit(path) ==
    [path |-> path, readable |-> FALSE, parse_error |-> FALSE, tree |-> Module(<<>>)]

UserUnits ==
    {SourceUnit("user.py", Module(b)) : b \in UNION {ModuleBodies(k) : k \in 0..MaxStmts}}

\* service.py: what another unit can do to user.py's names
ServiceUnits ==
    {SourceUnit("service.py", Module(<<s>>)) :
        s \in {Expr(Name("retries", Load)),
               Expr(Call(Attribute(Name("User", Load), "create", Load), <<>>)),
               ImportFrom(<<alias("User")>>),
               ClassDef("User", 1, <<Pass>>)}}
        \cup {SourceUnit("service.py", Module(<<>>))}

\* main() run with --find-unused in a directory that holds user.py and service.py;
\* `project` is the listing of args.directory in the order the file system gives
\* it, which is either one
Init ==
    /\ \E u \in UserUnits, s \in ServiceUnits : project \in {<<u, s>>, <<s, u>>}
    /\ skip_dirs = <<>>
    /\ written = <<>>
    /\ html = FALSE
    /\ find_unused = TRUE
    /\ todo = <<>>
    /\ pc = "walk"
    /\ functions = <<>>
    /\ calls = <<>>
    /\ variables = <<>>
    /\ variable_uses = <<>>
    /\ classes = <<>>
    /\ class_uses = {}
    /\ candidates = <<>>
    /\ unused_elements = <<>>
    /\ run = 1
    /\ first_run = <<>>
    /\ returned = [op |-> "none", value |-> <<>>]

SetAnalyzer(a) ==
    /\ functions' = a.functions
    /\ calls' = a.calls
    /\ variables' = a.variables
    /\ variable_uses' = a.variable_uses
    /\ classes' = a.classes
    /\ class_uses' = a.class_uses

\* args.directory
directory == "."

\* An entry of a directory listing is a file (a unit whose path is the file's
\* name) or a directory (its name and its own listing).
Directory(name, entries) == [name |-> name, entries |-> entries]

IsDirectory(entry) == "entries" \in DOMAIN entry

\* a directory is left out only when its name is a skip pattern
skipped_ExactName(d, patterns) == d \in patterns

\* the test of line 232 on the directory name d
skipped(d, patterns) == \E pattern \in patterns : contains(d, pattern) \/ d = pattern

RECURSIVE walk(_, _, _)
\* the files the loop of line 241 reaches under `root`, in the top-down order of
\* os.walk with the directories of lines 230-238 left out, each with the path of
\* line 243: the files of a directory in the order of its listing, then the
\* directories that are kept, in the order of the listing
walk(root, listing, patterns) ==
    LET files == SelectSeq(listing, LAMBDA e : ~IsDirectory(e))
        dirs == SelectSeq(listing, IsDirectory)
        kept == SelectSeq(dirs, LAMBDA d : ~skipped(d.name, patterns))
        here == [i \in DOMAIN files |-> [files[i] EXCEPT !.path = join(root, @)]]
        below[i \in 0..Len(kept)] ==
            IF i = 0 THEN <<>>
            ELSE below[i - 1] \o walk(join(root, kept[i].name), kept[i].entries, patterns)
    IN  here \o below[Len(kept)]

\* The listings os.walk can get of args.directory.  Before the program has written
\* anything it is `project`.  Where the files written since come in the listing,
\* and whether the older entries keep their order, is the file system's matter:
\* every order of the entries is possible.
Listings ==
    IF written = <<>> THEN {project}
    ELSE LET all == project \o written
         IN  {[i \in DOMAIN all |-> all[p[i]]] : p \in Permutations(DOMAIN all)}

\* analyze(), lines 228-238 and 241: which files the loop comes to, and in which
\* order, is fixed by the listing and self.skip_directories
Walk ==
    /\ pc = "walk"
    /\ \E found \in Listings :
          todo' = walk(directory, found, skip_directories(skip_dirs))
    /\ pc' = IF todo' = <<>> THEN "candidates" ELSE "analyze"
    /\ UNCHANGED index
    /\ UNCHANGED <<project, skip_dirs, html, written, find_unused, candidates, unused_elements, run, first_run, returned>>

\* analyze() handing every file of the directory to _analyze_file
submitted_AnyFile(file) == TRUE

\* the test of line 242: the file name ends in `.py`
submitted(file) == endswith(file.path, ".py")

\* one iteration of analyze()'s loop over the files (lines 241-244); an exception
\* that leaves _analyze_file leaves analyze() and main() as well
AnalyzeFile ==
    /\ pc = "analyze"
    /\ todo # <<>>
    /\ LET file == Head(todo)
           call == IF submitted(file)
                   THEN analyze_file(Analyzer, file)
                   ELSE Returns(Analyzer)
       IN  /\ SetAnalyzer(call.self)
           /\ pc' = IF call.raised THEN "aborted"
                    ELSE IF Tail(todo) = <<>> THEN "candidates" ELSE "analyze"
    /\ todo' = Tail(todo)
    /\ UNCHANGED <<project, skip_dirs, html, written, find_unused, candidates, unused_elements, run, first_run, returned>>

\* args.output, args.unused_output and args.html_output, left at their defaults
\* (lines 514, 515, 517): main() is run with the analyzed directory as its working
\* directory
output == "refactoring_candidates.json"

unused_output == "unused_elements.json"

html_output == "code_analysis_report.html"

\* a file the program wrote: json.dump of `content`, or the report made of it
OutputFile(path, content) == [path |-> path, readable |-> TRUE, content |-> content]

\* open(path, 'w') and a dump among the files written so far: an existing file gets
\* the new content, a new one is added.  `files` is kept in the order of writing,
\* which says nothing about the place of a file in a later listing (see Listings).
write(files, path, content) ==
    IF \E i \in DOMAIN files : files[i].path = path
    THEN [i \in DOMAIN files |->
             IF files[i].path = path THEN OutputFile(path, content) ELSE files[i]]
    ELSE Append(files, OutputFile(path, content))

\* main, lines 533-537
FindPrivateCandidates ==
    /\ pc = "candidates"
    /\ candidates' = find_private_candidates(functions, calls)
    /\ written' = write(written, output, candidates')
    /\ pc' = IF find_unused THEN "unused" ELSE IF html THEN "report" ELSE "done"
    /\ SetAnalyzer(AfterQuery(Analyzer))
    /\ UNCHANGED <<project, skip_dirs, html, find_unused, todo, unused_elements, run, first_run, returned>>

\* main, lines 546-550
FindAllUnusedElements ==
    /\ pc = "unused"
    /\ unused_elements' = find_all_unused_elements(functions, calls, classes, class_uses,
                                                   variables, variable_uses)
    /\ written' = write(written, unused_output, unused_elements')
    /\ pc' = IF html THEN "report" ELSE "done"
    /\ SetAnalyzer(AfterQuery(Analyzer))
    /\ UNCHANGED <<project, skip_dirs, html, find_unused, todo, candidates, run, first_run, returned>>

\* os.path.exists(path) among the files the program wrote
exists(files, path) == \E i \in DOMAIN files : files[i].path = path

\* json.load of the file at `path`
load(files, path) == (CHOOSE f \in {files[i] : i \in DOMAIN files} : f.path = path).content

\* os.path.dirname(path): what stands before the last slash, without the slashes
\* that end it unless it is made of slashes only
dirname(path) ==
    LET cs == Chars(path)
        head == SubSeq(cs, 1, rfind(cs, "/"))
        other == {i \in DOMAIN head : head[i] # "/"}
        stripped == IF other = {} THEN head
                    ELSE SubSeq(head, 1, CHOOSE i \in other : \A j \in other : j <= i)
    IN  CHOOSE s \in DOMAIN CharTable : CharTable[s] = stripped

\* the text of line 638 for a project path that is None or empty
UnknownPath == "unknown"

\* html_reporter.generate_html_report(json_file, output_file, project_path,
\* unused_json_file), lines 612-651: the candidates are read from json_file; a
\* project path that is None or empty is taken from the first candidate's file, and
\* shown as the text of line 638 when there is no candidate either; the unused
\* elements are read from unused_json_file when one is named and exists; the report
\* made of the three is written to output_file.  The date on the report and the
\* counts derived from the candidates are left out.
generate_html_report(files, json_file, output_file, project_path, unused_json_file) ==
    LET read == load(files, json_file)
        path == IF ~Truthy(project_path) /\ read # <<>>
                THEN dirname(read[1].file)
                ELSE project_path
        unused == IF Truthy(unused_json_file) /\ exists(files, unused_json_file)
                  THEN load(files, unused_json_file)
                  ELSE <<>>
    IN  write(files, output_file,
              [candidates |-> read, unused_elements |-> unused,
               project_path |-> IF Truthy(path) THEN path ELSE UnknownPath])

\* main, lines 559-567, run with --html: the report is written, with
\* args.directory as project path and no unused_json_file, unless the import of
\* html_reporter fails, which leaves a message and no report.  Whether
\* html_reporter.py is where the import finds it is a matter of the installation.
GenerateHtmlReport ==
    /\ pc = "report"
    /\ \/ written' = generate_html_report(written, output, html_output, directory, None)
       \/ written' = written
    /\ pc' = "done"
    /\ UNCHANGED index
    /\ UNCHANGED <<project, skip_dirs, html, find_unused, todo, candidates, unused_elements, run, first_run, returned>>

\* html_reporter.main(), lines 656-664, run in the analyzed directory on the
\* candidates main() wrote: `html_reporter.py refactoring_candidates.json`, with
\* --output and --unused-json left at their defaults and no --project-path
HtmlReporterMain ==
    /\ pc = "done"
    /\ exists(written, output)
    /\ written' = generate_html_report(written, output, html_output, None, unused_output)
    /\ UNCHANGED index
    /\ UNCHANGED <<project, skip_dirs, html, find_unused, todo, pc, candidates, unused_elements, run, first_run, returned>>

\* how often the program is run in the directory
MaxRuns == 2

\* the program is run once more in the same directory: a new process with a new
\* CodeAnalyzer, whose walk also comes to the files written since the first walk
RunAgain ==
    /\ pc = "done"
    /\ run < MaxRuns
    /\ first_run' = IF run = 1
                    THEN [candidates |-> candidates, unused_elements |-> unused_elements]
                    ELSE first_run
    /\ SetAnalyzer(CodeAnalyzerInit(Analyzer))
    /\ todo' = <<>>
    /\ pc' = "walk"
    /\ candidates' = <<>>
    /\ unused_elements' = <<>>
    /\ run' = run + 1
    /\ UNCHANGED <<project, skip_dirs, html, written, find_unused, returned>>

\* one invocation of main()
Next ==
    \/ Walk
    \/ AnalyzeFile
    \/ FindPrivateCandidates
    \/ FindAllUnusedElements

Spec == Init /\ [][Next]_vars

(***************************************************************************)
(* Direct use of the classifiers on an index filled in by hand, as         *)
(* tests/test_integration.py does; the test's own index, whose calls are   *)
(* plain tuples, is one of the initial states.                             *)
(***************************************************************************)
MaxFuncs == 2
MaxCalls == 2

LibFiles == {"user.py", "service.py"}

LibMethodNames == {"deactivate", "_log_status_change", "__init__", "__private",
                   "test_analyzer", "setUp", "tearDown"}

\* the FunctionInfo records a hand-made list may hold at line l
LibFunctions(l) ==
    {FunctionInfo(n, "user.py", "User", l) : n \in LibMethodNames}
        \cup {FunctionInfo(n, "user.py", None, l) : n \in {"main", "deactivate"}}

LibCallNames == {"deactivate", "_log_status_change"}

\* (file, class hint, caller class, caller function) of a hand-made call from user.py:
\* to the method, to its bare-call namesake, to another unit's method
LibCallTargets ==
    {<<"user.py", "User", "User", "create">>,
     <<"user.py", None, None, None>>,
     <<"service.py", "User", "User", "create">>}

LibCalls ==
    {CallInfo(n, t[1], t[2], "user.py", t[3], t[4]) :
        n \in LibCallNames, t \in LibCallTargets}
        \cup {CallInfo(n, "user.py", "User", "service.py", "UserService", "create_user") :
                n \in LibCallNames}
        \cup {CallInfo("__init__", "user.py", "User", "user.py", "User", "create")}

SeqsUpTo(S, n) == UNION {[1..k -> S] : k \in 0..n}

\* the i-th entry of a hand-made list sits at line 10 * i
AtLines(fs) == [i \in DOMAIN fs |-> [fs[i] EXCEPT !.lineno = 10 * i]]

\* the index of tests/test_integration.py, lines 18-32: three methods of TestClass,
\* and three calls written as plain tuples
TestFunctions ==
    <<FunctionInfo("public_method", "test.py", "TestClass", 10),
      FunctionInfo("_private_method", "test.py", "TestClass", 20),
      FunctionInfo("unused_method", "test.py", "TestClass", 30)>>

TestTuples ==
    <<<<"test.py", "public_method", "TestClass", "test.py", "OtherClass", "some_function">>,
      <<"test.py", "public_method", "TestClass", "other.py", None, "external_function">>,
      <<"test.py", "_private_method", "TestClass", "test.py", "TestClass", "public_method">>>>

\* the calls as the test has them, and the same items as CallInfo(*items)
TestCalls ==
    {[i \in DOMAIN TestTuples |-> PlainTuple(TestTuples[i])],
     [i \in DOMAIN TestTuples |->
         CallInfo(TestTuples[i][1], TestTuples[i][2], TestTuples[i][3],
                  TestTuples[i][4], TestTuples[i][5], TestTuples[i][6])]}

InitLibrary ==
    /\ \/ /\ functions \in {AtLines(fs) : fs \in SeqsUpTo(LibFunctions(0), MaxFuncs)}
          /\ calls \in SeqsUpTo(LibCalls, MaxCalls)
       \/ /\ functions = TestFunctions
          /\ calls \in TestCalls
    /\ variables = <<>>
    /\ variable_uses = <<>>
    /\ classes = <<>>
    /\ class_uses = {}
    /\ project = <<>>
    /\ skip_dirs = <<>>
    /\ written = <<>>
    /\ html = FALSE
    /\ find_unused = FALSE
    /\ todo = <<>>
    /\ pc = "library"
    /\ candidates = <<>>
    /\ unused_elements = <<>>
    /\ run = 1
    /\ first_run = <<>>
    /\ returned = [op |-> "none", value |-> <<>>]

\* candidates = analyzer.find_private_candidates()
CallFindPrivateCandidates ==
    /\ pc = "library"
    /\ returned' = IF AttributeError(calls) THEN Raised("find_private_candidates")
                   ELSE [op |-> "find_private_candidates", value |-> find_private_candidates(functions, calls)]
    /\ SetAnalyzer(AfterQuery(Analyzer))
    /\ UNCHANGED <<project, skip_dirs, html, written, find_unused, todo, pc, candidates, unused_elements, run, first_run>>

\* analyzer.find_unused_functions()
CallFindUnusedFunctions ==
    /\ pc = "library"
    /\ returned' = IF AttributeError(calls) THEN Raised("find_unused_functions")
                   ELSE [op |-> "find_unused_functions", value |-> find_unused_functions(functions, calls)]
    /\ SetAnalyzer(AfterQuery(Analyzer))
    /\ UNCHANGED <<project, skip_dirs, html, written, find_unused, todo, pc, candidates, unused_elements, run, first_run>>

\* analyzer.get_call_count()
CallGetCallCount ==
    /\ pc = "library"
    /\ returned' = IF AttributeError(calls) THEN Raised("get_call_count")
                   ELSE [op |-> "get_call_count", value |-> get_call_count(calls)]
    /\ SetAnalyzer(AfterQuery(Analyzer))
    /\ UNCHANGED <<project, skip_dirs, html, written, find_unused, todo, pc, candidates, unused_elements, run, first_run>>

NextLibrary ==
    \/ CallFindPrivateCandidates
    \/ CallFindUnusedFunctions
    \/ CallGetCallCount

SpecLibrary == InitLibrary /\ [][NextLibrary]_vars

(***************************************************************************)
(* Any sequence of classifier calls on an index filled in by hand; the     *)
(* first call and its result are kept in first_run.                        *)
(***************************************************************************)
QFunctions ==
    {<<>>,
     <<FunctionInfo("Max", "user.py", None, 10)>>,
     <<FunctionInfo("create", "user.py", "User", 10), FunctionInfo("Max", "user.py", None, 20)>>}

QCalls ==
    {<<>>,
     <<CallInfo("create", "user.py", "User", "user.py", "User", "deactivate")>>,
     <<CallInfo("Max", "user.py", None, "user.py", None, None)>>,
     <<PlainTuple(<<"user.py", "create", "User", "user.py", "User", "deactivate">>)>>}

QClasses ==
    {<<>>,
     <<ClassInfo("Max", "user.py", 30)>>,
     <<ClassInfo("User", "user.py", 5), ClassInfo("Max", "user.py", 30)>>}

QClassUses == {{}, {"User"}, {"Max"}}

QVariables ==
    {<<>>,
     <<VariableInfo("Max", "user.py", None, None, 40, FALSE)>>,
     <<VariableInfo("MAX_RETRIES", "user.py", "User", None, 6, TRUE),
       VariableInfo("Max", "user.py", None, None, 40, FALSE)>>}

QVariableUses == {<<>>, <<<<"Max", "user.py", None, None>>>>}

InitQueries ==
    /\ functions \in QFunctions
    /\ calls \in QCalls
    /\ variables \in QVariables
    /\ variable_uses \in QVariableUses
    /\ classes \in QClasses
    /\ class_uses \in QClassUses
    /\ project = <<>>
    /\ skip_dirs = <<>>
    /\ written = <<>>
    /\ html = FALSE
    /\ find_unused = FALSE
    /\ todo = <<>>
    /\ pc = "queries"
    /\ candidates = <<>>
    /\ unused_elements = <<>>
    /\ run = 1
    /\ first_run = [op |-> "none", value |-> <<>>]
    /\ returned = [op |-> "none", value |-> <<>>]

\* analyzer.get_call_count()
QueryGetCallCount ==
    /\ pc = "queries"
    /\ returned' = IF AttributeError(calls) THEN Raised("get_call_count")
                   ELSE [op |-> "get_call_count", value |-> get_call_count(calls)]
    /\ first_run' = IF returned.op = "none" THEN returned' ELSE first_run
    /\ SetAnalyzer(AfterQuery(Analyzer))
    /\ UNCHANGED <<project, skip_dirs, html, written, find_unused, todo, pc, candidates, unused_elements, run>>

\* analyzer.find_private_candidates()
QueryFindPrivateCandidates ==
    /\ pc = "queries"
    /\ returned' = IF AttributeError(calls) THEN Raised("find_private_candidates")
                   ELSE [op |-> "find_private_candidates", value |-> find_private_candidates(functions, calls)]
    /\ first_run' = IF returned.op = "none" THEN returned' ELSE first_run
    /\ SetAnalyzer(AfterQuery(Analyzer))
    /\ UNCHANGED <<project, skip_dirs, html, written, find_unused, todo, pc, candidates, unused_elements, run>>

\* analyzer.find_unused_functions()
QueryFindUnusedFunctions ==
    /\ pc = "queries"
    /\ returned' = IF AttributeError(calls) THEN Raised("find_unused_functions")
                   ELSE [op |-> "find_unused_functions", value |-> find_unused_functions(functions, calls)]
    /\ first_run' = IF returned.op = "none" THEN returned' ELSE first_run
    /\ SetAnalyzer(AfterQuery(Analyzer))
    /\ UNCHANGED <<project, skip_dirs, html, written, find_unused, todo, pc, candidates, unused_elements, run>>

\* analyzer.find_unused_classes()
QueryFindUnusedClasses ==
    /\ pc = "queries"
    /\ returned' = [op |-> "find_unused_classes", value |-> find_unused_classes(classes, class_uses)]
    /\ first_run' = IF returned.op = "none" THEN returned' ELSE first_run
    /\ SetAnalyzer(AfterQuery(Analyzer))
    /\ UNCHANGED <<project, skip_dirs, html, written, find_unused, todo, pc, candidates, unused_elements, run>>

\* analyzer.find_unused_variables()
QueryFindUnusedVariables ==
    /\ pc = "queries"
    /\ returned' = [op |-> "find_unused_variables", value |-> find_unused_variables(variables, variable_uses)]
    /\ first_run' = IF returned.op = "none" THEN returned' ELSE first_run
    /\ SetAnalyzer(AfterQuery(Analyzer))
    /\ UNCHANGED <<project, skip_dirs, html, written, find_unused, todo, pc, candidates, unused_elements, run>>

\* analyzer.find_all_unused_elements()
QueryFindAllUnusedElements ==
    /\ pc = "queries"
    /\ returned' = IF AttributeError(calls) THEN Raised("find_all_unused_elements")
                   ELSE [op |-> "find_all_unused_elements",
                         value |-> find_all_unused_elements(functions, calls, classes, class_uses,
                                                            variables, variable_uses)]
    /\ first_run' = IF returned.op = "none" THEN returned' ELSE first_run
    /\ SetAnalyzer(AfterQuery(Analyzer))
    /\ UNCHANGED <<project, skip_dirs, html, written, find_unused, todo, pc, candidates, unused_elements, run>>

NextQueries ==
    \/ QueryGetCallCount
    \/ QueryFindPrivateCandidates
    \/ QueryFindUnusedFunctions
    \/ QueryFindUnusedClasses
    \/ QueryFindUnusedVariables
    \/ QueryFindAllUnusedElements

SpecQueries == InitQueries /\ [][NextQueries]_vars

(***************************************************************************)
(* main() on a directory of up to MaxUnits entries, some of which cannot   *)
(* be extracted: unreadable, rejected by ast.parse, nested deeper than the *)
(* recursion limit allows, or a file named `.py`, which has no extension   *)
(* and sits in a subdirectory of its own.                                  *)
(***************************************************************************)
MaxUnits == 3

\* the name of the i-th entry of the listing when it is a file, and when it is a
\* directory
WalkPaths == <<"user.py", "service.py", "models.py", "views.py">>
WalkDirectories == <<"pkg", "lib", "app", "api">>

\* get_timestamp()()...(), n pairs of parentheses
RECURSIVE CallChain(_)
CallChain(n) ==
    IF n = 0 THEN Name("get_timestamp", Load) ELSE Call(CallChain(n - 1), <<>>)

ServiceTree ==
    Module(<<FunctionDef("get_timestamp", 1, <<Pass>>),
             Expr(Call(Name("get_timestamp", Load), <<>>))>>)

UserTree ==
    Module(<<ClassDef("User", 1,
                 <<Assign(<<Name("MAX_RETRIES", Store)>>, Constant, 2),
                   FunctionDef("create", 3,
                       <<Expr(Call(Attribute(Name("self", Load), "deactivate", Load),
                                   <<>>))>>),
                   FunctionDef("deactivate", 5, <<Expr(Name("MAX_RETRIES", Load))>>)>>)>>)

\* a definition, an assignment and a statement of `links` chained calls
ChainTree(links) ==
    Module(<<FunctionDef("main", 1, <<Pass>>),
             Assign(<<Name("retries", Store)>>, Constant, 3),
             Expr(CallChain(links))>>)

\* a unit that uses the class of UserTree by its name
ClientTree ==
    Module(<<Expr(Call(Attribute(Name("User", Load), "create", Load), <<>>))>>)

WalkKinds ==
    {"service", "user", "client", "broken", "unreadable", "hidden", "chain", "long_chain"}

WalkUnit(kind, i) ==
    CASE kind = "service" -> SourceUnit(WalkPaths[i], ServiceTree)
      [] kind = "user" -> SourceUnit(WalkPaths[i], UserTree)
      [] kind = "client" -> SourceUnit(WalkPaths[i], ClientTree)
      [] kind = "broken" -> BrokenUnit(WalkPaths[i])
      [] kind = "unreadable" -> UnreadableUnit(WalkPaths[i])
      [] kind = "hidden" -> Directory(WalkDirectories[i], <<SourceUnit(".py", ServiceTree)>>)
      [] kind = "chain" -> SourceUnit(WalkPaths[i], ChainTree(10))
      [] kind = "long_chain" -> SourceUnit(WalkPaths[i], ChainTree(15))

InitWalk ==
    /\ project \in {[i \in DOMAIN kinds |-> WalkUnit(kinds[i], i)] :
                       kinds \in UNION {[1..k -> WalkKinds] : k \in 1..MaxUnits}}
    /\ skip_dirs = <<>>
    /\ written = <<>>
    /\ html = TRUE
    /\ find_unused \in BOOLEAN
    /\ todo = <<>>
    /\ pc = "walk"
    /\ functions = <<>>
    /\ calls = <<>>
    /\ variables = <<>>
    /\ variable_uses = <<>>
    /\ classes = <<>>
    /\ class_uses = {}
    /\ candidates = <<>>
    /\ unused_elements = <<>>
    /\ run = 1
    /\ first_run = <<>>
    /\ returned = [op |-> "none", value |-> <<>>]

\* main() with --html, and html_reporter.py run on its output
NextReport == Next \/ GenerateHtmlReport \/ HtmlReporterMain

SpecWalk == InitWalk /\ [][NextReport]_vars

(***************************************************************************)
(* main() --find-unused, with or without --html, run up to MaxRuns times   *)
(* in one directory whose two source files are left as they are: from the  *)
(* second run on the walk also comes to the files the program wrote, in    *)
(* whatever order the file system lists the directory.                     *)
(***************************************************************************)
\* the statement `class User: pass`, and the import of the name User
UserClassTree == Module(<<ClassDef("User", 1, <<Pass>>)>>)

UserImportTree == Module(<<ImportFrom(<<alias("User")>>)>>)

InitAgain ==
    /\ \E u \in {SourceUnit("user.py", UserTree), SourceUnit("user.py", UserClassTree)},
          s \in {SourceUnit("service.py", ServiceTree),
                 SourceUnit("service.py", ClientTree),
                 SourceUnit("service.py", UserImportTree),
                 BrokenUnit("service.py")} :
          project \in {<<u, s>>, <<s, u>>}
    /\ skip_dirs = <<>>
    /\ written = <<>>
    /\ html \in BOOLEAN
    /\ find_unused = TRUE
    /\ todo = <<>>
    /\ pc = "walk"
    /\ functions = <<>>
    /\ calls = <<>>
    /\ variables = <<>>
    /\ variable_uses = <<>>
    /\ classes = <<>>
    /\ class_uses = {}
    /\ candidates = <<>>
    /\ unused_elements = <<>>
    /\ run = 1
    /\ first_run = <<>>
    /\ returned = [op |-> "none", value |-> <<>>]

NextAgain == Next \/ GenerateHtmlReport \/ RunAgain

SpecAgain == InitAgain /\ [][NextAgain]_vars

(***************************************************************************)
(* main() --find-unused on one file, user.py, whose statements cover the   *)
(* callee shapes, the assignment targets, the imports and the nestings of  *)
(* class, def and async def up to MaxNesting deep.                         *)
(***************************************************************************)
MaxNesting == 2

self_create == Call(Attribute(Name("self", Load), "create", Load), <<>>)
get_timestamp_call == Call(Name("get_timestamp", Load), <<>>)

\* expression statements: one per shape of callee
CallStmts ==
    {Expr(e) : e \in
        {get_timestamp_call,
         self_create,
         Call(Attribute(Name("User", Load), "create", Load), <<>>),
         Call(Attribute(Name("retries", Load), "create", Load), <<>>),
         Call(Attribute(Attribute(Name("self", Load), "retries", Load), "create", Load), <<>>),
         Call(get_timestamp_call, <<>>),
         Call(Subscript(Name("retries", Load), Constant, Load), <<>>),
         Call(Attribute(Call(Attribute(Name("User", Load), "create", Load), <<>>),
                        "deactivate", Load),
              <<get_timestamp_call>>),
         Call(Name("main", Load), <<self_create>>)}}

\* assignments at line l: one per shape of target list
AssignStmts(l) ==
    {Assign(<<Name("retries", Store)>>, Constant, l),
     Assign(<<Name("retries", Store), Name("MAX_RETRIES", Store)>>, Constant, l),
     AnnAssign(Name("MAX_RETRIES", Store), Name("int", Load), Constant, l),
     Assign(<<Attribute(Name("self", Load), "retries", Store)>>, Constant, l),
     Assign(<<Subscript(Name("retries", Load), Constant, Store)>>, Constant, l),
     Assign(<<TupleNode(<<Name("retries", Store), Name("Max", Store)>>, Store)>>,
            Name("MAX_RETRIES", Load), l),
     Assign(<<Name("retries", Store), Attribute(Name("self", Load), "retries", Store)>>,
            get_timestamp_call, l)}

OtherStmts ==
    {Import(<<alias("os")>>),
     ImportFrom(<<alias("User"), alias("retries")>>),
     Expr(Name("retries", Load)),
     Pass}

SimpleStmts(l) == CallStmts \cup AssignStmts(l) \cup OtherStmts

\* the statement that follows a sibling: retries = self.deactivate()
Probe(l) ==
    Assign(<<Name("retries", Store)>>,
           Call(Attribute(Name("self", Load), "deactivate", Load), <<>>), l)

\* a class, a def or an async def around a body; the name tells the depth
Wrappers(d, l, body) ==
    {ClassDef(<<"User", "AbstractUser", "TestUser">>[d], l, body),
     FunctionDef(<<"create", "inner", "main">>[d], l, body),
     AsyncFunctionDef("fetch", l, body)}

\* the statements nested at most d deep that start at line l; a body is one
\* statement, or one statement and the probe after it
RECURSIVE Stmts(_, _)
Stmts(d, l) ==
    IF d = 0 THEN SimpleStmts(l)
    ELSE SimpleStmts(l) \cup
         UNION {Wrappers(d, l, <<s>>) \cup Wrappers(d, l, <<s, Probe(l + 2 * d)>>) :
                   s \in Stmts(d - 1, l + 1)}

VisitUnits ==
    {SourceUnit("user.py", Module(<<s>>)) : s \in Stmts(MaxNesting, 1)}
        \cup {SourceUnit("user.py", Module(<<s, Probe(2 * MaxNesting + 2)>>)) :
                 s \in Stmts(MaxNesting, 1)}

InitVisit ==
    /\ project \in {<<u>> : u \in VisitUnits}
    /\ skip_dirs = <<>>
    /\ written = <<>>
    /\ html = FALSE
    /\ find_unused = TRUE
    /\ todo = <<>>
    /\ pc = "walk"
    /\ functions = <<>>
    /\ calls = <<>>
    /\ variables = <<>>
    /\ variable_uses = <<>>
    /\ classes = <<>>
    /\ class_uses = {}
    /\ candidates = <<>>
    /\ unused_elements = <<>>
    /\ run = 1
    /\ first_run = <<>>
    /\ returned = [op |-> "none", value |-> <<>>]

SpecVisit == InitVisit /\ [][Next]_vars

(***************************************************************************)
(* user.py with two classes that both have a method `create`, and calls of *)
(* the methods through receivers of every shape, inside a method and at    *)
(* module level; service.py may call User.create() as well.                *)
(***************************************************************************)
MaxReceiverCalls == 2

\* r.m() for a class name, an instance variable, self and another class; then
\* self.user.m() and User().m()
ReceiverCalls ==
    {Expr(Call(Attribute(Name(r, Load), m, Load), <<>>)) :
        r \in {"User", "user", "self", "AbstractUser"}, m \in {"create", "deactivate"}}
        \cup {Expr(Call(Attribute(Attribute(Name("self", Load), "user", Load), m, Load),
                        <<>>)) : m \in {"create", "deactivate"}}
        \cup {Expr(Call(Attribute(Call(Name("User", Load), <<>>), m, Load), <<>>)) :
                m \in {"create", "deactivate"}}

RECURSIVE ReceiverBodies(_)
ReceiverBodies(k) ==
    IF k = 0 THEN {<<>>}
    ELSE {Append(b, s) : b \in ReceiverBodies(k - 1), s \in ReceiverCalls}

ReceiverTree(body, stmts) ==
    Module(<<ClassDef("User", 1,
                 <<FunctionDef("create", 2, <<Pass>>),
                   FunctionDef("deactivate", 4, body)>>),
             ClassDef("AbstractUser", 7, <<FunctionDef("create", 8, <<Pass>>)>>)>>
           \o stmts)

ReceiverUnits ==
    {SourceUnit("user.py", ReceiverTree(body, stmts)) :
        body \in {<<Pass>>} \cup {<<s>> : s \in ReceiverCalls},
        stmts \in UNION {ReceiverBodies(k) : k \in 0..MaxReceiverCalls}}

\* service.py: User.create() called from another unit
ReceiverService ==
    SourceUnit("service.py",
               Module(<<Expr(Call(Attribute(Name("User", Load), "create", Load), <<>>))>>))

\* the units that are also run with service.py beside them: deactivate does
\* nothing, or calls user.create()
PairedUnits ==
    {SourceUnit("user.py", ReceiverTree(body, stmts)) :
        body \in {<<Pass>>,
                  <<Expr(Call(Attribute(Name("user", Load), "create", Load), <<>>))>>},
        stmts \in UNION {ReceiverBodies(k) : k \in 0..MaxReceiverCalls}}

\* user.py alone, or with service.py before or after it in the listing
InitReceiver ==
    /\ \/ \E u \in ReceiverUnits : project = <<u>>
       \/ \E u \in PairedUnits : project \in {<<u, ReceiverService>>, <<ReceiverService, u>>}
    /\ skip_dirs = <<>>
    /\ written = <<>>
    /\ html = FALSE
    /\ find_unused = TRUE
    /\ todo = <<>>
    /\ pc = "walk"
    /\ functions = <<>>
    /\ calls = <<>>
    /\ variables = <<>>
    /\ variable_uses = <<>>
    /\ classes = <<>>
    /\ class_uses = {}
    /\ candidates = <<>>
    /\ unused_elements = <<>>
    /\ run = 1
    /\ first_run = <<>>
    /\ returned = [op |-> "none", value |-> <<>>]

SpecReceiver == InitReceiver /\ [][Next]_vars

(***************************************************************************)
(* _analyze_file called directly, one path after the other, on text files  *)
(* and Python files, then the classifiers.  analyze() never hands a text   *)
(* file to _analyze_file, so this is the only way into the text-based path. *)
(***************************************************************************)
MaxLines == 2

\* a file the text-based path reads
TextUnit(path, lines) == [path |-> path, readable |-> TRUE, lines |-> lines]

TextPaths == {"main.go", "app.dart", "index.js", "View.TSX"}

TextUnits ==
    {TextUnit(p, ls) : p \in TextPaths, ls \in UNION {[1..k -> TextLines] : k \in 0..MaxLines}}

\* what is analyzed before or after the text file
OtherUnits ==
    {SourceUnit("user.py", UserTree),
     SourceUnit("service.py", ServiceTree),
     SourceUnit("views.py",
                Module(<<Expr(Call(Attribute(Name("User", Load), "create", Load), <<>>)),
                         Expr(Call(Name("get_timestamp", Load), <<>>))>>)),
     TextUnit("util.go", <<"func create() {", "user.create();">>)}

InitText ==
    /\ project \in {<<t>> : t \in TextUnits}
                      \cup {<<t, o>> : t \in TextUnits, o \in OtherUnits}
                      \cup {<<o, t>> : t \in TextUnits, o \in OtherUnits}
                      \cup {pair \in OtherUnits \X OtherUnits : pair[1] # pair[2]}
    /\ skip_dirs = <<>>
    /\ written = <<>>
    /\ html = FALSE
    /\ find_unused = FALSE
    /\ todo = project
    /\ pc = "analyze"
    /\ functions = <<>>
    /\ calls = <<>>
    /\ variables = <<>>
    /\ variable_uses = <<>>
    /\ classes = <<>>
    /\ class_uses = {}
    /\ candidates = <<>>
    /\ unused_elements = <<>>
    /\ run = 1
    /\ first_run = <<>>
    /\ returned = [op |-> "none", value |-> <<>>]

\* analyzer._analyze_file(path)
CallAnalyzeFile ==
    /\ pc = "analyze"
    /\ todo # <<>>
    /\ SetAnalyzer(analyze_file(Analyzer, Head(todo)).self)
    /\ todo' = Tail(todo)
    /\ pc' = IF Tail(todo) = <<>> THEN "library" ELSE "analyze"
    /\ UNCHANGED <<project, skip_dirs, html, written, find_unused, candidates, unused_elements, run, first_run, returned>>

NextText ==
    \/ CallAnalyzeFile
    \/ CallFindPrivateCandidates
    \/ CallFindUnusedFunctions
    \/ CallGetCallCount

SpecText == InitText /\ [][NextText]_vars

(***************************************************************************)
(* SpecSkip: main() on a directory with subdirectories.  An entry of a     *)
(* listing is a file (a unit whose path is the file's name) or a directory *)
(* (its name and its own listing).                                         *)
(***************************************************************************)
MaxDirs == 2

ModelsTree ==
    Module(<<FunctionDef("create", 1, <<Pass>>),
             Expr(Call(Name("create", Load), <<>>))>>)

\* the files directly under args.directory
RootFiles ==
    {<<>>,
     <<SourceUnit("user.py", UserTree)>>,
     <<TextUnit("app.dart", <<"void create() {", "user.create();">>),
       SourceUnit("user.py", UserTree)>>,
     <<SourceUnit("user.py", UserTree), TextUnit("main.go", <<"func create() {">>)>>,
     <<SourceUnit("SETUP.PY", ServiceTree), TextUnit("index.js", <<"function create() {">>)>>,
     <<TextUnit("README.md", <<"main();">>)>>}

TopNames == {"src", "build", "rebuild", "pkg.egg-info"}

SubNames == {"libs", "tmpl"}

\* a subdirectory with service.py in it and at most one directory below
Directories ==
    {Directory(t, <<SourceUnit("service.py", ServiceTree)>> \o nested) :
        t \in TopNames,
        nested \in {<<>>} \cup {<<Directory(s, <<SourceUnit("models.py", ModelsTree)>>)>> :
                                  s \in SubNames}}

RECURSIVE DirectoryLists(_)
\* up to k directories with different names
DirectoryLists(k) ==
    IF k = 0 THEN {<<>>}
    ELSE LET shorter == DirectoryLists(k - 1)
             longer == {x \in shorter \X Directories :
                           /\ Len(x[1]) = k - 1
                           /\ \A i \in DOMAIN x[1] : x[1][i].name # x[2].name}
         IN  shorter \cup {Append(x[1], x[2]) : x \in longer}

\* --skip-dirs absent, `lib`, or a blank
SkipArgs == {<<>>, <<"lib">>, <<"">>}

InitSkip ==
    /\ project \in {fs \o ds : fs \in RootFiles, ds \in DirectoryLists(MaxDirs)}
    /\ skip_dirs \in SkipArgs
    /\ written = <<>>
    /\ html = FALSE
    /\ find_unused = TRUE
    /\ todo = <<>>
    /\ pc = "walk"
    /\ functions = <<>>
    /\ calls = <<>>
    /\ variables = <<>>
    /\ variable_uses = <<>>
    /\ classes = <<>>
    /\ class_uses = {}
    /\ candidates = <<>>
    /\ unused_elements = <<>>
    /\ run = 1
    /\ first_run = <<>>
    /\ returned = [op |-> "none", value |-> <<>>]

SpecSkip == InitSkip /\ [][Next]_vars

(***************************************************************************)
(* Properties.  The vocabulary below restates the spec's terms over the    *)
(* index and the syntax trees without using the classifiers.               *)
(***************************************************************************)
\* the call References whose (unit, name, class-hint) is Definition d's identity
MatchingCalls(d) ==
    {j \in DOMAIN calls :
        calls[j].file = d.file /\ calls[j].name = d.name /\ calls[j].class_name = d.class_name}

CallCountOf(d) == Cardinality(MatchingCalls(d))

CallersLocal(d) == \A j \in MatchingCalls(d) : calls[j].caller_file = d.file

\* narrowing-candidate finding c is the one of function Definition d
CandidateIsFor(c, d) ==
    c.file = d.file /\ c.class = d.class_name /\ c.method = d.name /\ c.line = d.lineno

\* unused-function finding e is the one of function Definition d
ReportsFunction(e, d) ==
    /\ e.type = "function" /\ e.file = d.file /\ e.class = d.class_name
    /\ e.name = d.name /\ e.line = d.lineno

IsDunderName(name) == startswith(name, "__") /\ endswith(name, "__")

\* the names the unused-function rule excludes
IsExcludedFunctionName(name) ==
    startswith(name, "test_") \/ name \in {"setUp", "tearDown", "main"} \/ IsDunderName(name)

\* how many entries of `out` satisfy P's instance for d is counted per claim
CandidateEntries(d) ==
    {k \in DOMAIN returned.value : CandidateIsFor(returned.value[k], d)}

FunctionEntries(d) ==
    {k \in DOMAIN returned.value : ReportsFunction(returned.value[k], d)}

\* C1: find_private_candidates emits a finding for a Definition only if it has an
\* enclosing class, exactly one call Reference carries its identity and every such
\* caller is in its unit; a Definition with call count 0 or >= 2, or with no
\* enclosing class, is never emitted.
C1_CandidatesQualify ==
    returned.op = "find_private_candidates" =>
        /\ \A k \in DOMAIN returned.value :
              \E i \in DOMAIN functions :
                 /\ CandidateIsFor(returned.value[k], functions[i])
                 /\ functions[i].class_name # None
                 /\ CallCountOf(functions[i]) = 1
                 /\ CallersLocal(functions[i])
        /\ \A i \in DOMAIN functions :
              (CallCountOf(functions[i]) # 1 \/ functions[i].class_name = None)
                 => CandidateEntries(functions[i]) = {}

C1_Witness ==
    /\ returned.op = "find_private_candidates"
    /\ Len(returned.value) = 1
    /\ \E i \in DOMAIN functions :
          functions[i].class_name = None /\ CallCountOf(functions[i]) = 1

\* C2: every method Definition whose call count is exactly 1 and whose single caller
\* is in its own unit appears in the narrowing-candidate output exactly once,
\* whatever its name is, a leading underscore included.
C2_EverySingleLocalCallerReported ==
    returned.op = "find_private_candidates" =>
        \A i \in DOMAIN functions :
           (/\ functions[i].class_name # None
            /\ CallCountOf(functions[i]) = 1
            /\ CallersLocal(functions[i]))
              => Cardinality(CandidateEntries(functions[i])) = 1

\* C3: each narrowing-candidate finding carries the unit, class, method name and
\* line of its Definition, and its callers are exactly the distinct (unit, class,
\* function) sites of the call References carrying the Definition's identity.
C3_FindingFields ==
    returned.op = "find_private_candidates" =>
        \A k \in DOMAIN returned.value :
           \E i \in DOMAIN functions :
              /\ CandidateIsFor(returned.value[k], functions[i])
              /\ returned.value[k].callers =
                    {[file |-> calls[j].caller_file, class |-> calls[j].caller_class,
                      function |-> calls[j].caller_function] :
                        j \in MatchingCalls(functions[i])}

C3_Witness ==
    /\ returned.op = "find_private_candidates"
    /\ \E k \in DOMAIN returned.value :
          /\ returned.value[k].method = "deactivate"
          /\ returned.value[k].callers =
                {[file |-> "user.py", class |-> "User", function |-> "create"]}
    /\ Len(calls) = 2

\* C4: every function Definition with call count 0 whose name matches no exclusion
\* pattern appears in the find_unused_functions output exactly once, and no
\* function Definition with call count >= 1 appears in it.
C4_UnusedFunctionsReported ==
    returned.op = "find_unused_functions" =>
        \A i \in DOMAIN functions :
           /\ (CallCountOf(functions[i]) = 0 /\ ~IsExcludedFunctionName(functions[i].name))
                 => Cardinality(FunctionEntries(functions[i])) = 1
           /\ CallCountOf(functions[i]) >= 1 => FunctionEntries(functions[i]) = {}

C4_Witness ==
    /\ returned.op = "find_unused_functions"
    /\ \E i, j \in DOMAIN functions :
          /\ CallCountOf(functions[i]) = 0 /\ ~IsExcludedFunctionName(functions[i].name)
          /\ CallCountOf(functions[j]) >= 1 /\ ~IsExcludedFunctionName(functions[j].name)

\* C5: a function whose name is a dunder, begins with test_, is setUp or tearDown,
\* or is main never appears in the unused-function output, whatever its call count.
C5_ExcludedNeverReported ==
    returned.op = "find_unused_functions" =>
        \A k \in DOMAIN returned.value : ~IsExcludedFunctionName(returned.value[k].name)

C5_Witness ==
    /\ returned.op = "find_unused_functions"
    /\ \E i, j \in DOMAIN functions :
          /\ IsExcludedFunctionName(functions[i].name) /\ CallCountOf(functions[i]) = 0
          /\ IsExcludedFunctionName(functions[j].name) /\ CallCountOf(functions[j]) >= 1

RECURSIVE FilesUnder(_, _, _)
\* every file under a listing: the unit, its path, and the names of the directories
\* between args.directory and the file
FilesUnder(root, listing, above) ==
    UNION {IF IsDirectory(listing[i])
           THEN FilesUnder(join(root, listing[i].name), listing[i].entries,
                           Append(above, listing[i].name))
           ELSE {[unit |-> listing[i], path |-> join(root, listing[i].path), above |-> above]} :
           i \in DOMAIN listing}

ProjectFiles == FilesUnder(directory, project, <<>>)

\* the files under args.directory, each under the path line 243 gives it
Units == {[f.unit EXCEPT !.path = f.path] : f \in ProjectFiles}

\* the files in the order in which the first run's walk comes to them
Discovered == walk(directory, project, skip_directories(skip_dirs))

\* the file the walk hands to _analyze_file as `path`
UnitAt(path) == CHOOSE u \in Units : u.path = path

\* the units ast.parse accepts
ParsedUnits == {u \in Units : ~u.parse_error}

\* (name, line) of every simple-name assignment target lexically inside a function
\* or method construct, `async def` included
RECURSIVE LocalAssignments(_, _)
LocalAssignments(node, inside) ==
    LET own == IF ~inside THEN {}
               ELSE IF node.type = "Assign"
                    THEN {<<node.targets[i].id, node.lineno>> :
                             i \in {j \in DOMAIN node.targets : node.targets[j].type = "Name"}}
               ELSE IF node.type = "AnnAssign" /\ node.target.type = "Name"
                    THEN {<<node.target.id, node.lineno>>}
               ELSE {}
        within == inside \/ node.type \in {"FunctionDef", "AsyncFunctionDef"}
        kids == Children(node)
    IN  own \cup UNION {LocalAssignments(kids[i], within) : i \in DOMAIN kids}

\* the names read (Name nodes in Load context) anywhere in a tree
RECURSIVE NameLoads(_)
NameLoads(node) ==
    LET kids == Children(node)
    IN  (IF node.type = "Name" /\ node.ctx = "Load" THEN {node.id} ELSE {})
           \cup UNION {NameLoads(kids[i]) : i \in DOMAIN kids}

\* the receivers other than self of `receiver.attr(...)` calls, and the imported names
RECURSIVE ReceiversAndImports(_)
ReceiversAndImports(node) ==
    LET kids == Children(node)
        own == IF /\ node.type = "Call"
                  /\ node.func.type = "Attribute"
                  /\ node.func.value.type = "Name"
                  /\ node.func.value.id # "self"
               THEN {node.func.value.id}
               ELSE IF node.type \in {"Import", "ImportFrom"}
                    THEN {node.names[i].name : i \in DOMAIN node.names}
                    ELSE {}
    IN  own \cup UNION {ReceiversAndImports(kids[i]) : i \in DOMAIN kids}

UsedNamesOfTree == UNION {ReceiversAndImports(u.tree) : u \in ParsedUnits}

\* unused-variable finding e is the one of variable Definition v
ReportsVariable(e, v) ==
    /\ e.type = "variable" /\ e.file = v.file /\ e.class = v.class_name
    /\ e.name = v.name /\ e.line = v.lineno

\* unused-class finding e is the one of class Definition c
ReportsClass(e, c) ==
    e.type = "class" /\ e.file = c.file /\ e.name = c.name /\ e.line = c.lineno

Reported == pc = "done" /\ find_unused

\* every letter of the name is an uppercase one, and it has a letter
AllUppercase(name) ==
    LET cs == Chars(name)
    IN  /\ {i \in DOMAIN cs : cs[i] \in UpperCase} # {}
        /\ {i \in DOMAIN cs : cs[i] \in LowerCase} = {}

HasAbstractOrTestName(name) ==
    \/ startswith(name, "Abstract") \/ endswith(name, "Interface")
    \/ startswith(name, "Test") \/ endswith(name, "Test")

\* C6: a variable assigned lexically inside the body of a function or method
\* construct (any depth, plain or annotated, `async def` included) never appears in
\* the unused-variable output.
C6_NoFunctionLocalReported ==
    \A k \in DOMAIN unused_elements :
       unused_elements[k].type = "variable" =>
          <<unused_elements[k].name, unused_elements[k].line>>
             \notin LocalAssignments(UnitAt(unused_elements[k].file).tree, FALSE)

\* C7: a module- or class-level variable Definition (enclosing_function null) whose
\* name is not a dunder is in the unused-variable output iff no name load of its own
\* unit carries its name; loads in other units do not count.
C7_UnusedVariableIff ==
    Reported =>
        \A i \in DOMAIN variables :
           (variables[i].function_name = None /\ ~IsDunderName(variables[i].name)) =>
              ((\E k \in DOMAIN unused_elements :
                   ReportsVariable(unused_elements[k], variables[i]))
                 <=> variables[i].name \notin NameLoads(UnitAt(variables[i].file).tree))

C7_Witness ==
    /\ Reported
    /\ \E i \in DOMAIN variables, k \in DOMAIN unused_elements :
          /\ ReportsVariable(unused_elements[k], variables[i])
          /\ variables[i].file = "./user.py"
          /\ variables[i].name \in NameLoads(UnitAt("./service.py").tree)

\* C8: is_constant of every variable Definition is true iff its name is
\* all-uppercase, and an unused-variable finding reports its Definition's
\* is_constant unchanged.
C8_IsConstant ==
    /\ \A i \in DOMAIN variables :
          variables[i].is_constant = AllUppercase(variables[i].name)
    /\ \A k \in DOMAIN unused_elements :
          unused_elements[k].type = "variable" =>
             \E i \in DOMAIN variables :
                /\ ReportsVariable(unused_elements[k], variables[i])
                /\ unused_elements[k].is_constant = variables[i].is_constant

C8_Witness ==
    /\ Reported
    /\ \E k \in DOMAIN unused_elements :
          /\ unused_elements[k].type = "variable"
          /\ unused_elements[k].name = "MAX_RETRIES"
          /\ unused_elements[k].class = None
          /\ unused_elements[k].is_constant = TRUE
    /\ \E i \in DOMAIN variables : variables[i].name = "Max"

\* C9: a class Definition is in the unused-class output iff its name has no abstract
\* or test prefix/suffix and is absent from the used-names set, which holds the
\* non-self call receivers and the imported names of all units; a use in any unit
\* marks the classes of that name in every unit.
C9_UnusedClassIff ==
    Reported =>
        /\ class_uses = UsedNamesOfTree
        /\ \A i \in DOMAIN classes :
              (\E k \in DOMAIN unused_elements : ReportsClass(unused_elements[k], classes[i]))
                 <=> (~HasAbstractOrTestName(classes[i].name)
                         /\ classes[i].name \notin UsedNamesOfTree)

C9_Witness ==
    /\ Reported
    /\ \E i \in DOMAIN classes :
          /\ classes[i].file = "./user.py"
          /\ classes[i].name \in ReceiversAndImports(UnitAt("./service.py").tree)
          /\ classes[i].name \notin ReceiversAndImports(UnitAt("./user.py").tree)
          /\ \A k \in DOMAIN unused_elements : ~ReportsClass(unused_elements[k], classes[i])

AsSet(seq) == {seq[i] : i \in DOMAIN seq}

\* C10: running the full pipeline again on the same unit set yields the same
\* finding sets as the first run, in whatever order the later walk comes to the
\* units and to the files the program has written into the directory meanwhile.
C10_SecondRunSameFindings ==
    (run > 1 /\ pc = "done") =>
        /\ AsSet(candidates) = AsSet(first_run.candidates)
        /\ AsSet(unused_elements) = AsSet(first_run.unused_elements)

C10_Witness ==
    /\ run = 2
    /\ pc = "done"
    /\ {written[i].path : i \in DOMAIN written} = {output, unused_output, html_output}
    /\ project[1].path = "user.py"
    /\ calls # <<>>
    /\ calls[1].caller_file = "./service.py"
    /\ \E i \in DOMAIN classes : classes[i].name \in class_uses
    /\ candidates # <<>>
    /\ unused_elements # <<>>

\* the extraction of unit u ends in an exception: open/read or ast.parse fails, or
\* one of the two traversals runs out of stack
ExtractionRaises(u) ==
    \/ ~u.readable
    \/ u.parse_error
    \/ StackBase + VisitFrames(u.tree, FV_methods) > RecursionLimit
    \/ StackBase + VisitFrames(u.tree, CV_methods) > RecursionLimit

\* no extractor is registered for the unit's extension
Unsupported(u) ==
    lower(splitext_ext(u.path)) \notin
        {Chars(e) : e \in {".py", ".dart", ".go", ".js", ".jsx", ".ts", ".tsx"}}

\* the nodes of a tree that satisfy Is(_)
RECURSIVE NodesOf(_)
NodesOf(node) ==
    LET kids == Children(node)
    IN  {node} \cup UNION {NodesOf(kids[i]) : i \in DOMAIN kids}

\* a call whose callee is a bare name or an attribute of a simple name
HasNamedCallee(node) ==
    /\ node.type = "Call"
    /\ \/ node.func.type = "Name"
       \/ node.func.type = "Attribute" /\ node.func.value.type = "Name"

\* seq continues old: nothing collected earlier is changed or lost
Extends(seq, old) == Len(old) <= Len(seq) /\ SubSeq(seq, 1, Len(old)) = old

ExtractionDone == pc \in {"candidates", "unused", "report", "done"}

\* C11: a failure while extracting one unit (unreadable file, parse failure,
\* unsupported language) never aborts the run: the pass never ends in an exception,
\* every step of it leaves the records collected so far in place, and once it is
\* over every unit whose own extraction does not fail has its function Definitions
\* and call References in the index, whatever came before it in the walk.
C11_FailureIsLocal ==
    /\ [](pc # "aborted")
    /\ [][pc = "analyze" =>
             /\ Extends(functions', functions) /\ Extends(calls', calls)
             /\ Extends(variables', variables) /\ Extends(variable_uses', variable_uses)
             /\ Extends(classes', classes) /\ class_uses \subseteq class_uses']_vars
    /\ [](ExtractionDone =>
             \A u \in Units :
                (~ExtractionRaises(u) /\ ~Unsupported(u)) =>
                   /\ {functions[k].name : k \in {j \in DOMAIN functions :
                                                      functions[j].file = u.path}}
                         = {n.name : n \in {m \in NodesOf(u.tree) : m.type = "FunctionDef"}}
                   /\ Cardinality({k \in DOMAIN calls : calls[k].file = u.path})
                         = Cardinality({m \in NodesOf(u.tree) : HasNamedCallee(m)}))

C11_Witness ==
    /\ ExtractionDone
    /\ Len(Discovered) = 3
    /\ ~ExtractionRaises(Discovered[1]) /\ ~Unsupported(Discovered[1])
    /\ ExtractionRaises(Discovered[2])
    /\ ~ExtractionRaises(Discovered[3]) /\ ~Unsupported(Discovered[3])
    /\ \E k \in DOMAIN functions : functions[k].file = Discovered[1].path
    /\ \E k \in DOMAIN calls : calls[k].file = Discovered[3].path

\* C12: extraction of a unit is all-or-nothing: a unit whose extraction raises, at
\* parse time or during either traversal, contributes no Definition, no Reference
\* and no used name (so no pattern-based extractor ran on it either).
C12_AllOrNothing ==
    \A u \in Units :
       ExtractionRaises(u) =>
          /\ \A k \in DOMAIN functions : functions[k].file # u.path
          /\ \A k \in DOMAIN classes : classes[k].file # u.path
          /\ \A k \in DOMAIN variables : variables[k].file # u.path
          /\ \A k \in DOMAIN calls : calls[k].file # u.path
          /\ \A k \in DOMAIN variable_uses : variable_uses[k][2] # u.path
          /\ Cardinality(Units) = 1 => class_uses = {}

\* the identities a query may name: the ones some call carries and their neighbours
\* in each single component
Identities ==
    LibFiles \X {"deactivate", "_log_status_change", "__init__", "main"}
             \X {None, "User", "UserService"}

\* the count the returned mapping gives for an identity; a missing key reads as 0
CountAt(mapping, id) == IF id \in DOMAIN mapping THEN mapping[id] ELSE 0

\* C13: get_call_count maps each identity (unit, name, class-hint) to exactly the
\* number of call References carrying that triple; an identity no call carries has
\* count 0, and References that differ in one of the three components are counted
\* apart.
C13_CallCountPerIdentity ==
    returned.op = "get_call_count" =>
        /\ \A id \in Identities :
              CountAt(returned.value, id) =
                 Cardinality({j \in DOMAIN calls :
                                 /\ calls[j].file = id[1]
                                 /\ calls[j].name = id[2]
                                 /\ calls[j].class_name = id[3]})
        /\ \A id \in DOMAIN returned.value :
              \E j \in DOMAIN calls :
                 calls[j].file = id[1] /\ calls[j].name = id[2] /\ calls[j].class_name = id[3]

C13_Witness ==
    /\ returned.op = "get_call_count"
    /\ \E id1, id2 \in DOMAIN returned.value :
          /\ id1[1] = id2[1] /\ id1[2] = id2[2] /\ id1[3] # id2[3]
          /\ returned.value[id1] = 1 /\ returned.value[id2] = 1

\* the position of a finding's category in the output
CategoryRank(type) ==
    CASE type = "function" -> 1 [] type = "class" -> 2 [] type = "variable" -> 3

\* the Definitions each rule set reports, told from the index alone
UnusedFunctionDefs ==
    {i \in DOMAIN functions :
        CallCountOf(functions[i]) = 0 /\ ~IsExcludedFunctionName(functions[i].name)}

UnusedClassDefs ==
    {i \in DOMAIN classes :
        ~HasAbstractOrTestName(classes[i].name) /\ classes[i].name \notin class_uses}

UnusedVariableDefs ==
    {i \in DOMAIN variables :
        /\ variables[i].function_name = None
        /\ ~IsDunderName(variables[i].name)
        /\ ~\E k \in DOMAIN variable_uses :
               variable_uses[k][1] = variables[i].name /\ variable_uses[k][2] = variables[i].file}

\* C14: find_all_unused_elements returns the unused-function findings, then the
\* unused-class findings, then the unused-variable findings, with no entry removed:
\* each category holds one entry per Definition its rule set reports, the length is
\* the sum of the three, and a name reported by two rule sets appears once per
\* rule set.
C14_ConcatenatedUndeduplicated ==
    returned.op = "find_all_unused_elements" =>
        LET out == returned.value
            OfType(t) == {k \in DOMAIN out : out[k].type = t}
        IN  /\ \A i, j \in DOMAIN out :
                  i < j => CategoryRank(out[i].type) <= CategoryRank(out[j].type)
            /\ Cardinality(OfType("function")) = Cardinality(UnusedFunctionDefs)
            /\ Cardinality(OfType("class")) = Cardinality(UnusedClassDefs)
            /\ Cardinality(OfType("variable")) = Cardinality(UnusedVariableDefs)
            /\ Len(out) = Cardinality(UnusedFunctionDefs) + Cardinality(UnusedClassDefs)
                             + Cardinality(UnusedVariableDefs)

C14_Witness ==
    /\ returned.op = "find_all_unused_elements"
    /\ \E i, j, k \in DOMAIN returned.value :
          /\ returned.value[i].type = "function"
          /\ returned.value[j].type = "class"
          /\ returned.value[k].type = "variable"
          /\ returned.value[i].name = returned.value[j].name
          /\ returned.value[j].name = returned.value[k].name

\* Every node of a tree, in document order, with the class and the function
\* construct that lexically enclose it innermost; `opens` says which node classes
\* count as function constructs.
RECURSIVE ScopedNodes(_, _, _, _)
RECURSIVE ScopedEach(_, _, _, _)
ScopedNodes(node, cls, fn, opens) ==
    <<[node |-> node, class |-> cls, function |-> fn]>>
        \o ScopedEach(Children(node),
                      IF node.type = "ClassDef" THEN node.name ELSE cls,
                      IF node.type \in opens THEN node.name ELSE fn,
                      opens)

ScopedEach(nodes, cls, fn, opens) ==
    IF nodes = <<>> THEN <<>>
    ELSE ScopedNodes(Head(nodes), cls, fn, opens) \o ScopedEach(Tail(nodes), cls, fn, opens)

\* user.py as the walk hands it to _analyze_file
TheUnit == UnitAt("./user.py")

Lexical == {"FunctionDef", "AsyncFunctionDef"}

IsNamedCall(e) == HasNamedCallee(e.node)

IsReceiverCall(e) ==
    /\ e.node.type = "Call"
    /\ e.node.func.type = "Attribute"
    /\ e.node.func.value.type = "Name"

\* the calls with a bare-name or simple-receiver callee, in document order
NamedCalls == SelectSeq(ScopedNodes(TheUnit.tree, None, None, Lexical), IsNamedCall)

ImportedNames ==
    UNION {{n.names[i].name : i \in DOMAIN n.names} :
              n \in {m \in NodesOf(TheUnit.tree) : m.type \in {"Import", "ImportFrom"}}}

\* C16: for a call `<receiver>.<attr>(...)` with a simple-name receiver the
\* Reference's class hint is the caller's enclosing class when the receiver token
\* is `self`, and then the receiver is not added to the used names; otherwise the
\* hint is the receiver token verbatim and the token is a used name; for a bare
\* `<name>(...)` call the hint is none.  Nothing but the receiver string decides.
C16_ReceiverDecidesHint ==
    ExtractionDone =>
        /\ Len(calls) = Len(NamedCalls)
        /\ \A k \in DOMAIN NamedCalls :
              LET e == NamedCalls[k]
                  callee == e.node.func
              IN  IF IsReceiverCall(e)
                  THEN /\ calls[k].name = callee.attr
                       /\ IF callee.value.id = "self"
                          THEN calls[k].class_name = e.class
                          ELSE /\ calls[k].class_name = callee.value.id
                               /\ callee.value.id \in class_uses
                  ELSE calls[k].name = callee.id /\ calls[k].class_name = None
        /\ "self" \in class_uses => "self" \in ImportedNames

C16_Witness ==
    /\ ExtractionDone
    /\ \E k \in DOMAIN NamedCalls :
          /\ IsReceiverCall(NamedCalls[k])
          /\ NamedCalls[k].node.func.value.id = "self"
          /\ NamedCalls[k].class = "AbstractUser"
          /\ NamedCalls[k].function = "create"
          /\ calls[k].class_name = "AbstractUser"
    /\ \E k \in DOMAIN calls : calls[k].class_name = "retries"
    /\ class_uses = {"retries"}

\* a call whose callee is neither a bare name nor an attribute of a simple name
IsOtherCall(e) == e.node.type = "Call" /\ ~HasNamedCallee(e.node)

OtherCalls == SelectSeq(ScopedNodes(TheUnit.tree, None, None, Lexical), IsOtherCall)

\* the name a call with a named callee is recorded under
CalleeName(node) == IF node.func.type = "Attribute" THEN node.func.attr ELSE node.func.id

\* the receivers other than self of the calls with a simple-receiver callee
Receivers ==
    {NamedCalls[k].node.func.value.id :
        k \in {j \in DOMAIN NamedCalls :
                  /\ IsReceiverCall(NamedCalls[j])
                  /\ NamedCalls[j].node.func.value.id # "self"}}

\* C17: a call whose callee is a chained attribute, a subscript or a call result
\* produces no call Reference and adds nothing to the used names, while the calls
\* nested in its callee or arguments are recorded: the References are, in order,
\* exactly the calls with a named callee, wherever they sit, and the used names are
\* exactly the receivers of those and the imported names.
C17_OtherCalleesUnrecorded ==
    ExtractionDone =>
        /\ [k \in DOMAIN calls |-> calls[k].name]
              = [k \in DOMAIN NamedCalls |-> CalleeName(NamedCalls[k].node)]
        /\ class_uses = Receivers \cup ImportedNames

C17_Witness ==
    /\ ExtractionDone
    /\ \E k \in DOMAIN OtherCalls :
          /\ OtherCalls[k].node.func.type = "Attribute"
          /\ OtherCalls[k].node.func.value.type = "Call"
          /\ OtherCalls[k].node.args # <<>>
    /\ Len(OtherCalls) = 1
    /\ [k \in DOMAIN calls |-> calls[k].name] = <<"create", "get_timestamp", "deactivate">>
    /\ class_uses = {"User"}

IsSimpleName(n) == n.type = "Name"

\* the simple-name targets of one statement, left to right, with its scope and line
TargetEntries(e) ==
    LET names == IF e.node.type = "Assign" THEN SelectSeq(e.node.targets, IsSimpleName)
                 ELSE IF e.node.type = "AnnAssign" /\ e.node.target.type = "Name"
                      THEN <<e.node.target>>
                      ELSE <<>>
    IN  [i \in DOMAIN names |->
            [name |-> names[i].id, class |-> e.class, function |-> e.function,
             line |-> e.node.lineno]]

RECURSIVE AllTargetEntries(_)
AllTargetEntries(entries) ==
    IF entries = <<>> THEN <<>>
    ELSE TargetEntries(Head(entries)) \o AllTargetEntries(Tail(entries))

\* the simple-name assignment targets of the unit, in document order
AssignedNames(opens) == AllTargetEntries(ScopedNodes(TheUnit.tree, None, None, opens))

IsPlainDef(e) == e.node.type = "FunctionDef"
IsNameLoad(e) == e.node.type = "Name" /\ e.node.ctx = "Load"

\* every Definition and Reference carries the class and the function construct,
\* one of `opens`, that enclose it innermost
ScopesFollow(opens) ==
    LET nodes == ScopedNodes(TheUnit.tree, None, None, opens)
        defs == SelectSeq(nodes, IsPlainDef)
        named == SelectSeq(nodes, IsNamedCall)
        loads == SelectSeq(nodes, IsNameLoad)
        targets == AllTargetEntries(nodes)
    IN  /\ Len(functions) = Len(defs)
        /\ \A k \in DOMAIN defs : functions[k].class_name = defs[k].class
        /\ Len(variables) = Len(targets)
        /\ \A k \in DOMAIN targets :
              /\ variables[k].class_name = targets[k].class
              /\ variables[k].function_name = targets[k].function
        /\ Len(calls) = Len(named)
        /\ \A k \in DOMAIN named :
              /\ calls[k].caller_class = named[k].class
              /\ calls[k].caller_function = named[k].function
        /\ Len(variable_uses) = Len(loads)
        /\ \A k \in DOMAIN loads :
              /\ variable_uses[k][3] = loads[k].class
              /\ variable_uses[k][4] = loads[k].function

\* C18: scope tracking is strictly paired in both visitors: the scope recorded on a
\* Definition or Reference is that of its innermost lexically enclosing class and
\* function construct, a sibling never sees the scope of the construct before it,
\* a function Definition's class is the class current at its header, and after a
\* complete traversal both visitors are back at none / none.
C18_ScopesAreLexical ==
    ExtractionDone =>
        /\ ScopesFollow(Lexical)
        /\ LET fv == FV_visit(TheUnit.tree, FunctionVisitor(TheUnit.path))
               cv == CV_visit(TheUnit.tree, CallVisitor(TheUnit.path))
           IN  /\ fv.current_class = None /\ fv.current_function = None
               /\ cv.current_class = None /\ cv.current_function = None

\* C19: an assignment statement yields exactly one variable Definition per left-hand
\* target that is a simple name (each target of a chained assignment, and the target
\* of an annotated one), carrying the current class, the current function (the
\* innermost function construct, def or async def, around the statement) and the
\* statement's line; attribute, subscript and tuple targets yield none.
C19_OneDefinitionPerNameTarget ==
    ExtractionDone =>
        LET targets == AssignedNames(Lexical)
        IN  /\ Len(variables) = Len(targets)
            /\ \A k \in DOMAIN targets :
                  /\ variables[k].name = targets[k].name
                  /\ variables[k].file = TheUnit.path
                  /\ variables[k].class_name = targets[k].class
                  /\ variables[k].function_name = targets[k].function
                  /\ variables[k].lineno = targets[k].line

\* C20: each imported name is recorded both as a name-load Reference of its unit
\* and as a used name for the dead-class check, so a module- or class-level
\* variable of that name in the unit is never reported as unused.
C20_ImportedNamesAreLoads ==
    ExtractionDone =>
        /\ \A n \in ImportedNames :
              /\ n \in class_uses
              /\ \E k \in DOMAIN variable_uses :
                    variable_uses[k][1] = n /\ variable_uses[k][2] = TheUnit.path
        /\ \A k \in DOMAIN unused_elements :
              unused_elements[k].type = "variable" => unused_elements[k].name \notin ImportedNames

\* the records of the index that name unit u as their file
RecordsOf(u) ==
    [functions |-> SelectSeq(functions, LAMBDA r : r.file = u.path),
     variables |-> SelectSeq(variables, LAMBDA r : r.file = u.path),
     calls |-> SelectSeq(calls, LAMBDA r : r.caller_file = u.path),
     variable_uses |-> SelectSeq(variable_uses, LAMBDA r : r[2] = u.path)]

\* no record of unit u carries a class scope
Classless(u) ==
    LET own == RecordsOf(u)
    IN  /\ \A k \in DOMAIN own.functions : own.functions[k].class_name = None
        /\ \A k \in DOMAIN own.variables : own.variables[k].class_name = None
        /\ \A k \in DOMAIN own.calls : own.calls[k].caller_class = None
        /\ \A k \in DOMAIN own.variable_uses : own.variable_uses[k][3] = None

\* the records a step added to a collection
Added(seq, old) == SubSeq(seq, Len(old) + 1, Len(seq))

\* the units whose extraction runs to its end
Extracted == {u \in Units : ~ExtractionRaises(u) /\ ~Unsupported(u)}

\* the names used as classes anywhere in the extracted units
UsedNamesOfProject == UNION {ReceiversAndImports(u.tree) : u \in Extracted}

\* the class statements of a unit
ClassStatements(u) ==
    {<<n.name, n.lineno>> : n \in {m \in NodesOf(u.tree) : m.type = "ClassDef"}}

\* C22: units are extracted one at a time, each by visitors that start with scope
\* none/none, and no classifier runs before the pass over all units is over: until
\* the pass ends there is no finding and no output file; each step of the pass adds
\* records of one unit only; a unit without a class statement yields only classless
\* records, whatever unit came before it; when the classifiers run, the index holds
\* the classes and the used names of every unit that can be extracted and it is not
\* changed any more; and the findings are those of the whole project: a class is
\* reported exactly when no extracted unit, earlier or later in the walk, uses its
\* name, and a function exactly when the complete index has no call of it.
C22_ExtractThenClassify ==
    /\ [](pc \in {"walk", "analyze"} =>
             candidates = <<>> /\ unused_elements = <<>> /\ written = <<>>)
    /\ [][pc = "analyze" =>
             \E u \in Units :
                /\ \A k \in DOMAIN Added(functions', functions) :
                      Added(functions', functions)[k].file = u.path
                /\ \A k \in DOMAIN Added(calls', calls) :
                      Added(calls', calls)[k].caller_file = u.path
                /\ \A k \in DOMAIN Added(variables', variables) :
                      Added(variables', variables)[k].file = u.path
                /\ \A k \in DOMAIN Added(variable_uses', variable_uses) :
                      Added(variable_uses', variable_uses)[k][2] = u.path
                /\ \A k \in DOMAIN Added(classes', classes) :
                      Added(classes', classes)[k].file = u.path]_vars
    /\ [](\A u \in Units : ClassStatements(u) = {} => Classless(u))
    /\ [](ExtractionDone =>
             /\ class_uses = UsedNamesOfProject
             /\ \A u \in Extracted :
                   {<<classes[k].name, classes[k].lineno>> :
                       k \in {j \in DOMAIN classes : classes[j].file = u.path}}
                      = ClassStatements(u))
    /\ [][ExtractionDone => index' = index]_vars
    /\ []((pc = "done" /\ find_unused) =>
             /\ \A i \in DOMAIN classes :
                   (\E k \in DOMAIN unused_elements :
                       ReportsClass(unused_elements[k], classes[i]))
                      <=> (~HasAbstractOrTestName(classes[i].name)
                              /\ classes[i].name \notin UsedNamesOfProject)
             /\ \A i \in DOMAIN functions :
                   (\E k \in DOMAIN unused_elements :
                       ReportsFunction(unused_elements[k], functions[i]))
                      <=> (CallCountOf(functions[i]) = 0
                              /\ ~IsExcludedFunctionName(functions[i].name)))

C22_Witness ==
    /\ pc = "done"
    /\ find_unused
    /\ Len(Discovered) = 3
    /\ ClassStatements(Discovered[1]) # {}
    /\ ClassStatements(Discovered[2]) = {}
    /\ RecordsOf(Discovered[1]).functions # <<>>
    /\ RecordsOf(Discovered[2]).functions # <<>>
    /\ RecordsOf(Discovered[2]).calls # <<>>
    /\ \E i \in DOMAIN classes :
          /\ classes[i].file = Discovered[1].path
          /\ classes[i].name \in ReceiversAndImports(Discovered[3].tree)
          /\ \A k \in DOMAIN unused_elements : ~ReportsClass(unused_elements[k], classes[i])
    /\ candidates # <<>>
    /\ unused_elements # <<>>

\* the `receiver.attr(...)` calls of user.py, with their lexical scopes
ReceiverNodes == SelectSeq(ScopedNodes(TheUnit.tree, None, None, Lexical), IsReceiverCall)

\* call e invokes method Definition d by the rule of the claim: the attribute is
\* d's name and the receiver token is d's class name, or it is `self` inside d's class
CountsToward(e, d) ==
    /\ e.node.func.attr = d.name
    /\ IF e.node.func.value.id = "self" THEN e.class = d.class_name
       ELSE e.node.func.value.id = d.class_name

InvocationsOf(d) == {k \in DOMAIN ReceiverNodes : CountsToward(ReceiverNodes[k], d)}

ReportedUnused(d) == \E k \in DOMAIN unused_elements : ReportsFunction(unused_elements[k], d)

\* C24: the call count of a method Definition is the number of calls `r.m(...)` of
\* its own unit in which m is its name and r is its class name, token for token,
\* or `self` inside its class; calls through an instance variable named otherwise,
\* through another class name, or through a chained or computed receiver count for
\* nothing, and a method that has only such calls is reported by
\* find_unused_functions unless its name is excluded.
C24_ExactReceiverCounts ==
    pc = "done" =>
        \A i \in DOMAIN functions :
           (functions[i].file = TheUnit.path /\ functions[i].class_name # None) =>
              /\ CallCountOf(functions[i]) = Cardinality(InvocationsOf(functions[i]))
              /\ ReportedUnused(functions[i])
                    <=> (InvocationsOf(functions[i]) = {}
                            /\ ~IsExcludedFunctionName(functions[i].name))

C24_Witness ==
    /\ pc = "done"
    /\ Len(project) = 2
    /\ \E i \in DOMAIN functions :
          /\ functions[i].name = "create" /\ functions[i].class_name = "User"
          /\ functions[i].file = "./user.py"
          /\ ReportedUnused(functions[i])
          /\ \E k \in DOMAIN ReceiverNodes :
                /\ ReceiverNodes[k].node.func.value.id = "user"
                /\ ReceiverNodes[k].node.func.attr = "create"
                /\ ReceiverNodes[k].class = "User"
          /\ \E m \in NodesOf(TheUnit.tree) :
                /\ m.type = "Call" /\ m.func.type = "Attribute" /\ m.func.attr = "create"
                /\ m.func.value.type = "Attribute"
    /\ \E i \in DOMAIN functions :
          /\ functions[i].name = "deactivate" /\ functions[i].class_name = "User"
          /\ CallCountOf(functions[i]) = 1
          /\ ~ReportedUnused(functions[i])

\* path p is dispatched to one of the text-based extractors
IsTextPath(p) ==
    lower(splitext_ext(p)) \in {Chars(e) : e \in {".dart", ".go", ".js", ".jsx", ".ts", ".tsx"}}

TextDefinitions == {i \in DOMAIN functions : IsTextPath(functions[i].file)}

TextReferences == {j \in DOMAIN calls : IsTextPath(calls[j].caller_file)}

\* C21: a Definition the text-based extractors produce has no enclosing class and a
\* Reference they produce has no class hint, no site class and no site function; so
\* find_private_candidates never returns a finding for a text file, also when the
\* Definition has exactly one call and that call is local, and find_unused_functions
\* returns for these Definitions exactly the non-excluded ones without a call.
C21_TextRecordsAreScopeless ==
    /\ \A i \in TextDefinitions : functions[i].class_name = None
    /\ \A j \in TextReferences :
          /\ calls[j].class_name = None
          /\ calls[j].caller_class = None
          /\ calls[j].caller_function = None
    /\ returned.op = "find_private_candidates" =>
          \A k \in DOMAIN returned.value : ~IsTextPath(returned.value[k].file)
    /\ returned.op = "find_unused_functions" =>
          \A i \in TextDefinitions :
             (\E k \in DOMAIN returned.value : ReportsFunction(returned.value[k], functions[i]))
                <=> (CallCountOf(functions[i]) = 0
                        /\ ~IsExcludedFunctionName(functions[i].name))

C21_Witness ==
    /\ returned.op = "find_private_candidates"
    /\ returned.value # <<>>
    /\ \E i \in TextDefinitions :
          /\ functions[i].file = "main.go"
          /\ functions[i].name = "deactivate"
          /\ CallCountOf(functions[i]) = 1
          /\ CallersLocal(functions[i])
    /\ \E i \in DOMAIN functions : functions[i].file = "user.py" /\ functions[i].class_name = "User"

\* how many of the calls cs carry Definition d's identity
CountIn(cs, d) ==
    Cardinality({j \in DOMAIN cs :
                    cs[j].file = d.file /\ cs[j].name = d.name
                       /\ cs[j].class_name = d.class_name})

\* C23: every call Reference has its target unit equal to its site unit, whichever
\* extractor produced it; the records a call of _analyze_file adds all carry the
\* path it was called with; so analyzing one unit leaves the call count of every
\* Definition of another unit as it was, and whenever a Reference matches a
\* Definition's identity its site unit is the Definition's unit.
C23_TargetIsSiteUnit ==
    /\ [](\A j \in DOMAIN calls : calls[j].file = calls[j].caller_file)
    /\ [][pc = "analyze" =>
             /\ \A k \in DOMAIN Added(functions', functions) :
                   Added(functions', functions)[k].file = Head(todo).path
             /\ \A k \in DOMAIN Added(classes', classes) :
                   Added(classes', classes)[k].file = Head(todo).path
             /\ \A k \in DOMAIN Added(variables', variables) :
                   Added(variables', variables)[k].file = Head(todo).path
             /\ \A k \in DOMAIN Added(calls', calls) :
                   Added(calls', calls)[k].caller_file = Head(todo).path
             /\ \A i \in DOMAIN functions :
                   functions[i].file # Head(todo).path =>
                      CountIn(calls', functions[i]) = CountIn(calls, functions[i])]_vars
    /\ [](\A i \in DOMAIN functions : CallersLocal(functions[i]))

C23_Witness ==
    /\ pc = "library"
    /\ \E i \in DOMAIN functions, j \in DOMAIN calls :
          /\ functions[i].file = "user.py" /\ functions[i].name = "create"
          /\ functions[i].class_name = "User"
          /\ calls[j].name = "create" /\ calls[j].class_name = "User"
          /\ calls[j].caller_file # "user.py"
          /\ CallCountOf(functions[i]) = 0
    /\ \E i \in DOMAIN functions : CallCountOf(functions[i]) = 1

\* the files the records of the index name
IndexedFiles ==
    {functions[i].file : i \in DOMAIN functions}
        \cup {classes[i].file : i \in DOMAIN classes}
        \cup {variables[i].file : i \in DOMAIN variables}
        \cup {calls[i].caller_file : i \in DOMAIN calls}
        \cup {calls[i].file : i \in DOMAIN calls}
        \cup {variable_uses[i][2] : i \in DOMAIN variable_uses}

\* a directory above file f has a name in which a skip pattern occurs
UnderSkipped(f) ==
    \E i \in DOMAIN f.above, pattern \in skip_directories(skip_dirs) :
        contains(f.above[i], pattern)

\* C26: a directory is pruned exactly when a skip pattern occurs in its name as a
\* substring: after the pass, no file below a directory with such a name has a
\* record in the index, and every Python file that is below no such directory has
\* its records there.
C26_PrunedBySubstring ==
    ExtractionDone =>
       \A f \in ProjectFiles :
          /\ UnderSkipped(f) => f.path \notin IndexedFiles
          /\ (~UnderSkipped(f) /\ endswith(f.path, ".py")) => f.path \in IndexedFiles

C26_Witness ==
    /\ pc = "done"
    /\ skip_dirs = <<"lib">>
    /\ \E f \in ProjectFiles : f.above = <<"rebuild">> /\ f.path \notin IndexedFiles
    /\ \E f \in ProjectFiles : f.above = <<"pkg.egg-info", "libs">> /\ f.path \notin IndexedFiles
    /\ \E f \in ProjectFiles : f.above = <<"pkg.egg-info">> /\ f.path \in IndexedFiles
    /\ \E i \in DOMAIN functions : functions[i].file = "./pkg.egg-info/service.py"

\* C25: analyze() hands _analyze_file only files whose name ends in `.py`: every
\* record of the index names such a file, files with another extension, `.PY`
\* included, leave nothing, and no record of the text-based extractors is in the
\* index.
C25_OnlyPyFilesSubmitted ==
    /\ \A p \in IndexedFiles : endswith(p, ".py")
    /\ \A f \in ProjectFiles : ~endswith(f.unit.path, ".py") => f.path \notin IndexedFiles
    /\ TextDefinitions = {}
    /\ TextReferences = {}
    /\ pc # "walk" => \A i \in DOMAIN todo : todo[i].path \in {f.path : f \in ProjectFiles}

C25_Witness ==
    /\ pc = "done"
    /\ \E f \in ProjectFiles : f.path = "./app.dart" /\ f.unit.lines = <<"void create() {", "user.create();">>
    /\ \E f \in ProjectFiles : f.path = "./src/service.py"
    /\ IndexedFiles = {"./user.py", "./src/service.py"}

====
